---- MODULE Spec2Model ----
(***************************************************************************)
(* The pixel-grid editing engine of drawpad: the zustand store of          *)
(* src/src/App.tsx (usePixelStore: raster, bounded undo/redo history,      *)
(* resize, import, export, persistence) and the pointer handlers and       *)
(* effects of src/src/components/PixelCanvas.tsx (pen/eraser strokes,      *)
(* flood fill, eyedropper, the offscreen bitmap, onHistoryChange).         *)
(*                                                                         *)
(* A raster is a function from keys <<col, row>> (the code's string        *)
(* `${col},${row}`) to PixelData records [x, y, color].  The history is a  *)
(* sequence of rasters, indexed from 1 here and from 0 in the code:        *)
(* historyIndex keeps the code's 0-based value, and the code's             *)
(* history[i] is written Snap(history, i).                                 *)
(***************************************************************************)
EXTENDS Integers, Sequences, FiniteSets, TLC

VARIABLES
    pixels,        \* store.pixels: the live raster
    history,       \* store.history: sequence of snapshots
    historyIndex,  \* store.historyIndex (0-based, as in the code)
    isDrawing,     \* store.isDrawing
    gridSize,      \* store.gridSize
    pixelSize,     \* store.pixelSize
    propGridSize,  \* App's gridSize state, passed to PixelCanvas as a prop
    currentTool,   \* App's currentTool state
    currentColor,  \* App's currentColor state
    brushSize,     \* App's brushSize state
    lastPos,       \* PixelCanvas lastPosRef.current
    listeners,     \* document-level mousemove/mouseup pairs still registered
    offscreenCanvas, \* store.offscreenCanvas / offscreenCtxRef.current is not null
    bitmap,        \* the content of the offscreen canvas, per cell of its grid
    notified,      \* the last <<canUndo, canRedo>> delivered to onHistoryChange
    pendingImport, \* the sizes importImage captured, until its image has loaded
    aliased,       \* store.pixels and history[historyIndex] are one Map object
    loop,          \* the loop a handler is in (floodFill's, drawLine's), or none
    pushes,        \* snapshots pushed since the initial state (bounds the model)
    last           \* the operation that produced this state, and its result

vars == <<pixels, history, historyIndex, isDrawing, gridSize, pixelSize,
          propGridSize, currentTool, currentColor, brushSize, lastPos,
          listeners, offscreenCanvas, bitmap, notified, pendingImport,
          aliased, loop, pushes, last>>

------------------------------------------------------------------------------
(* Bounds of the model and constants of the program *)

MAX_HISTORY == 50
FIXED_CANVAS_SIZE == 600
MaxGrid == 2
MaxPushes == 2
MaxListeners == 1
MaxCapUndo == 2
FillGrid == 3
StrokeGrid == 10
MaxBrush == 3
DragGrid == 4

GridSizes == 1..MaxGrid
Tools == {"pen", "eraser", "bucket"}
\* the pen color (App's initial currentColor) and a second color, which
\* enters the raster through imported images
Black == "#000000"
Red == "#ff0000"
Colors == {Black, Red}
\* the stage background: white, with the odd cells grey while App's
\* showCheckerboard state has its initial value
White == "#ffffff"
Grey == "#f0f0f0"
ShowCheckerboard == TRUE
\* pointer positions in pixels relative to the canvas origin; <<-50, 0>> lies
\* outside the canvas, the others inside it
PointerPositions == {<<0, 0>>, <<450, 450>>, <<-50, 0>>}

EmptyMap == << >>            \* new Map()
NoPos == << >>               \* lastPosRef.current = null; a position is <<col, row>>
NoImport == << >>            \* no import is waiting for its image
NoLoop == << >>              \* no handler is inside a loop
Deleted == [deleted |-> TRUE] \* the null of an update batch: delete the key

------------------------------------------------------------------------------
(* Map helpers *)

Snap(h, i) == h[i + 1]

Min(a, b) == IF a < b THEN a ELSE b
Abs(a) == IF a < 0 THEN -a ELSE a

\* content equality of two rasters: same cells, same colors
ContentEqual(a, b) ==
    /\ DOMAIN a = DOMAIN b
    /\ \A k \in DOMAIN a : a[k].color = b[k].color

------------------------------------------------------------------------------
(* usePixelStore: the raster store and the history manager *)

\* an updatePixels that stores the null of a removal under the key
UpdatePixels_StoreNull(p, updates) ==
    [k \in DOMAIN p \cup DOMAIN updates |->
        IF k \in DOMAIN updates THEN updates[k] ELSE p[k]]

\* updatePixels: apply a batch of insertions and removals to a raster
UpdatePixels(p, updates) ==
    LET dels == {k \in DOMAIN updates : updates[k] = Deleted}
        sets == DOMAIN updates \ dels
    IN  [k \in (DOMAIN p \ dels) \cup sets |->
            IF k \in sets THEN updates[k] ELSE p[k]]

\* saveHistory's duplicate test without the comparison of colors
IsSame_IgnoreColor(currentState, currentPixels) ==
    /\ Cardinality(DOMAIN currentState) = Cardinality(DOMAIN currentPixels)
    /\ \A key \in DOMAIN currentPixels : key \in DOMAIN currentState

\* saveHistory's duplicate test: isSame after the size comparison and the loop
IsSame(currentState, currentPixels) ==
    /\ Cardinality(DOMAIN currentState) = Cardinality(DOMAIN currentPixels)
    /\ \A key \in DOMAIN currentPixels :
          /\ key \in DOMAIN currentState
          /\ currentState[key].color = currentPixels[key].color

\* a push that keeps the snapshots after the index
TruncateAndPush_NoTruncate(h, idx, currentPixels) == Append(h, currentPixels)

\* history.slice(0, historyIndex + 1) followed by push(new Map(currentPixels))
TruncateAndPush(h, idx, currentPixels) ==
    Append(SubSeq(h, 1, idx + 1), currentPixels)

\* newHistoryIndex = newHistory.length - 1, off by one
NewHistoryIndex_PastEnd(newHistory) == Len(newHistory)

\* let newHistoryIndex = newHistory.length - 1
NewHistoryIndex(newHistory) == Len(newHistory) - 1

\* a limit that decrements the index and forgets to shift()
LimitHistory_NoShift(newHistory, newHistoryIndex) ==
    IF Len(newHistory) > MAX_HISTORY
    THEN [history |-> newHistory, historyIndex |-> newHistoryIndex - 1]
    ELSE [history |-> newHistory, historyIndex |-> newHistoryIndex]

\* a limit that pops the newest snapshot instead of shifting the oldest
LimitHistory_DropNewest(newHistory, newHistoryIndex) ==
    IF Len(newHistory) > MAX_HISTORY
    THEN [history |-> SubSeq(newHistory, 1, Len(newHistory) - 1),
          historyIndex |-> newHistoryIndex - 1]
    ELSE [history |-> newHistory, historyIndex |-> newHistoryIndex]

\* the MAX_HISTORY limit: shift() the oldest snapshot and decrement the index
LimitHistory(newHistory, newHistoryIndex) ==
    IF Len(newHistory) > MAX_HISTORY
    THEN [history |-> Tail(newHistory), historyIndex |-> newHistoryIndex - 1]
    ELSE [history |-> newHistory, historyIndex |-> newHistoryIndex]

\* saveHistory(pixels): the new history and index; and, for the record of
\* the operation, whether it pushed, how many snapshots after the index it
\* discarded and whether it evicted the oldest one
SaveHistory(h, idx, currentPixels) ==
    IF IsSame(Snap(h, idx), currentPixels)
    THEN [history |-> h, historyIndex |-> idx, pushed |-> FALSE,
          dropped |-> 0, evicted |-> FALSE]
    ELSE LET newHistory == TruncateAndPush(h, idx, currentPixels)
             lim == LimitHistory(newHistory, NewHistoryIndex(newHistory))
         IN  [history |-> lim.history, historyIndex |-> lim.historyIndex,
              pushed |-> TRUE, dropped |-> Len(h) - (idx + 1),
              evicted |-> Len(newHistory) > MAX_HISTORY]

\* a canRedo() that is still true at the last snapshot
CanRedo_AtEnd(h, idx) == idx < Len(h)

\* canUndo() and canRedo()
CanUndo(idx) == idx > 0
CanRedo(h, idx) == idx < Len(h) - 1

\* getSnapshot()
GetSnapshot(p, h, idx, g, ps) ==
    [pixels |-> p, pixelCount |-> Cardinality(DOMAIN p),
     canUndo |-> idx > 0, canRedo |-> idx < Len(h) - 1,
     gridSize |-> g, pixelSize |-> ps]

NoRet == << >>               \* a return value of null; a returned map m is <<m>>

\* an undo() that does not move
UndoIndex_Stay(idx) == idx

\* undo(): newIndex
UndoIndex(idx) == idx - 1

\* an undo() that moves the index and leaves the raster as it is
UndoResult_KeepRaster(h, idx, p) ==
    IF idx > 0
    THEN [pixels |-> p, historyIndex |-> UndoIndex(idx),
          ret |-> <<Snap(h, UndoIndex(idx))>>]
    ELSE [pixels |-> p, historyIndex |-> idx, ret |-> NoRet]

\* undo(): the raster and index it leaves and the value it returns
UndoResult(h, idx, p) ==
    IF idx > 0
    THEN [pixels |-> Snap(h, UndoIndex(idx)), historyIndex |-> UndoIndex(idx),
          ret |-> <<Snap(h, UndoIndex(idx))>>]
    ELSE [pixels |-> p, historyIndex |-> idx, ret |-> NoRet]

\* a redo() that does not move
RedoIndex_Stay(idx) == idx

\* redo(): newIndex
RedoIndex(idx) == idx + 1

\* redo(): the raster and index it leaves and the value it returns
RedoResult(h, idx, p) ==
    IF idx < Len(h) - 1
    THEN [pixels |-> Snap(h, RedoIndex(idx)), historyIndex |-> RedoIndex(idx),
          ret |-> <<Snap(h, RedoIndex(idx))>>]
    ELSE [pixels |-> p, historyIndex |-> idx, ret |-> NoRet]

\* resizeCanvas(newGridSize, newPixelSize): the rasters the remapping can
\* produce.  Each entry's grid coordinate is recovered from its offsets, not
\* from its key.  forEach visits the entries in insertion order and a later
\* entry overwrites an earlier one that lands on the same new key; a raster
\* here does not record insertion order, so when several entries land on one
\* key each of them may be the one that stays.
ResizePixels(oldPixels, oldPixelSize, newGridSize, newPixelSize) ==
    LET Col(k) == oldPixels[k].x \div oldPixelSize
        Row(k) == oldPixels[k].y \div oldPixelSize
        kept == {k \in DOMAIN oldPixels :
                    /\ Col(k) >= 0 /\ Col(k) < newGridSize
                    /\ Row(k) >= 0 /\ Row(k) < newGridSize}
        newKeys == {<<Col(k), Row(k)>> : k \in kept}
        Srcs(nk) == {k \in kept : <<Col(k), Row(k)>> = nk}
    IN  IF DOMAIN oldPixels = {} THEN {oldPixels}
        ELSE {[nk \in newKeys |->
                 [x |-> nk[1] * newPixelSize, y |-> nk[2] * newPixelSize,
                  color |-> oldPixels[src[nk]].color]] :
              src \in {f \in [newKeys -> kept] : \A nk \in newKeys : f[nk] \in Srcs(nk)}}

\* App.getPixelSize: the cell size that keeps the canvas at its fixed width
GetPixelSize(size) == FIXED_CANVAS_SIZE \div size

------------------------------------------------------------------------------
(* PixelCanvas: what a render's handlers see, and the stroke algorithms *)

\* The values a render of PixelCanvas closes over.  The stage handlers are
\* re-registered after every render, so they see the current values; the
\* document-level handlers registered at pointer-down keep the values of the
\* render that registered them.
Render == [isDrawing |-> isDrawing, tool |-> currentTool, color |-> currentColor,
           brush |-> brushSize, grid |-> propGridSize]

\* The closure a document-level handler pair keeps.  handleMouseMove returns
\* at once and handleMouseUp skips saveHistory when the captured isDrawing
\* is false, and neither then reads any other captured value, so those
\* closures are all recorded as the same one.
Closure(r) ==
    IF r.isDrawing THEN r
    ELSE [isDrawing |-> FALSE, tool |-> "pen", color |-> Black, brush |-> 1,
          grid |-> 1]

\* getPixelCoords(x, y): the cell under a pixel position, or none
GetPixelCoords(x, y, r) ==
    LET col == x \div GetPixelSize(r.grid)
        row == y \div GetPixelSize(r.grid)
    IN  IF col >= 0 /\ col < r.grid /\ row >= 0 /\ row < r.grid
        THEN <<col, row>> ELSE NoPos

\* collectPixels: the cells of a batch that pass the range test
InGrid(col, row, g) == col >= 0 /\ col < g /\ row >= 0 /\ row < g

\* collectPixels: the value stored under a key, null for the eraser
CollectValue(col, row, r) ==
    IF r.tool = "eraser" THEN Deleted
    ELSE [x |-> col * GetPixelSize(r.grid), y |-> row * GetPixelSize(r.grid),
          color |-> r.color]

\* a brush whose radius is brushSize instead of floor(brushSize / 2)
BrushCells_Diameter(centerCol, centerRow, r) ==
    LET radius == r.brush
        cand == IF r.brush = 1 THEN {<<centerCol, centerRow>>}
                ELSE {<<centerCol + dx, centerRow + dy>> :
                         dx \in -radius..radius, dy \in -radius..radius}
    IN  {k \in cand : InGrid(k[1], k[2], r.grid)}

\* a brush without collectPixels' range test
BrushCells_NoRangeTest(centerCol, centerRow, r) ==
    LET radius == r.brush \div 2
    IN  IF r.brush = 1 THEN {<<centerCol, centerRow>>}
        ELSE {<<centerCol + dx, centerRow + dy>> :
                 dx \in -radius..radius, dy \in -radius..radius}

\* collectPixels (brushSize 1) or collectBrushPixels around one centre
BrushCells(centerCol, centerRow, r) ==
    LET radius == r.brush \div 2
        cand == IF r.brush = 1 THEN {<<centerCol, centerRow>>}
                ELSE {<<centerCol + dx, centerRow + dy>> :
                         dx \in -radius..radius, dy \in -radius..radius}
    IN  {k \in cand : InGrid(k[1], k[2], r.grid)}

\* drawLine's loop: the centres visited from (x, y) to (x1, y1)
RECURSIVE LineLoop(_, _, _, _, _, _, _, _, _)
LineLoop(x, y, x1, y1, dx, dy, sx, sy, err) ==
    IF x = x1 /\ y = y1 THEN <<<<x, y>>>>
    ELSE LET e2 == 2 * err
             stepX == e2 > -dy
             stepY == e2 < dx
             err1 == IF stepX THEN err - dy ELSE err
             err2 == IF stepY THEN err1 + dx ELSE err1
         IN  <<<<x, y>>>> \o LineLoop(IF stepX THEN x + sx ELSE x,
                                      IF stepY THEN y + sy ELSE y,
                                      x1, y1, dx, dy, sx, sy, err2)

\* a drawLine that stamps the two end points and nothing between them
LineCells_EndpointsOnly(x0, y0, x1, y1) == <<<<x0, y0>>, <<x1, y1>>>>

\* drawLine(x0, y0, x1, y1): the sequence of centres
LineCells(x0, y0, x1, y1) ==
    LET dx == Abs(x1 - x0)
        dy == Abs(y1 - y0)
        sx == IF x0 < x1 THEN 1 ELSE -1
        sy == IF y0 < y1 THEN 1 ELSE -1
    IN  LineLoop(x0, y0, x1, y1, dx, dy, sx, sy, dx - dy)

\* the batch (pixelsToUpdate) a set of centres produces
Batch(centres, r) ==
    LET cells == UNION {BrushCells(c[1], c[2], r) : c \in centres}
    IN  [k \in cells |-> CollectValue(k[1], k[2], r)]

\* a drawLine that stamps the brush on the end point only
DrawLineBatch_EndOnly(x0, y0, x1, y1, r) == Batch({<<x1, y1>>}, r)

\* drawLine's batch
DrawLineBatch(x0, y0, x1, y1, r) ==
    LET line == LineCells(x0, y0, x1, y1)
    IN  Batch({line[i] : i \in 1..Len(line)}, r)

\* a color lookup that reports every cell as unset
ColorAt_Unset(p, key) == "none"

\* map.get(key)?.color || null: the color stored under a key, "none" for null
ColorAt(p, key) == IF key \in DOMAIN p THEN p[key].color ELSE "none"

\* a fill that also spreads to the four diagonal neighbours
Neighbours_Diagonal(col, row) ==
    <<<<col + 1, row>>, <<col - 1, row>>, <<col, row + 1>>, <<col, row - 1>>,
      <<col + 1, row + 1>>, <<col - 1, row - 1>>, <<col + 1, row - 1>>,
      <<col - 1, row + 1>>>>

\* floodFill: the four cells pushed on the queue after a cell is filled
Neighbours(col, row) ==
    <<<<col + 1, row>>, <<col - 1, row>>, <<col, row + 1>>, <<col, row - 1>>>>

\* floodFill's breadth-first loop: the batch it collects.  The iterations
\* that shift a key and continue change nothing but the queue, so a run of
\* them is taken at once: the loop goes on from the first key of the queue
\* that is in range, not visited and of the target color.  (The queue and
\* the two Maps of the next iteration are bound to their values.)
RECURSIVE FillLoop(_, _, _, _, _, _)
FillLoop(queue, visited, newPixels, pixelsToUpdate, targetColor, r) ==
    LET filled == {i \in 1..Len(queue) :
                      /\ InGrid(queue[i][1], queue[i][2], r.grid)
                      /\ queue[i] \notin visited
                      /\ ColorAt(newPixels, queue[i]) = targetColor}
    IN  IF filled = {} THEN pixelsToUpdate
        ELSE LET first == CHOOSE i \in filled : \A j \in filled : i <= j
                 key == queue[first]
                 upd == [k \in {key} |->
                            [x |-> key[1] * GetPixelSize(r.grid),
                             y |-> key[2] * GetPixelSize(r.grid),
                             color |-> r.color]]
             IN  CHOOSE batch \in
                     {FillLoop(rest, visited \cup {key}, filledPixels, collected,
                               targetColor, r) :
                        rest \in {SubSeq(queue, first + 1, Len(queue))
                                     \o Neighbours(key[1], key[2])},
                        filledPixels \in {UpdatePixels(newPixels, upd)},
                        collected \in {UpdatePixels(pixelsToUpdate, upd)}} :
                     TRUE

\* floodFill(startCol, startRow): the batch handed to updatePixels, or no
\* batch at all (fill is FALSE) when the seed already has the fill color
FloodFill(p, startCol, startRow, r) ==
    LET targetColor == ColorAt(p, <<startCol, startRow>>)
    IN  IF targetColor = r.color THEN [fill |-> FALSE, batch |-> EmptyMap]
        ELSE [fill |-> TRUE,
              batch |-> FillLoop(<<<<startCol, startRow>>>>, {}, p, EmptyMap,
                                 targetColor, r)]

------------------------------------------------------------------------------
(* PixelCanvas: the offscreen bitmap and the stage.  The bitmap is recorded
   per cell of the canvas's grid: bitmap[<<col, row>>] is the color at the
   centre of the cell's block, and a cell outside DOMAIN bitmap is
   transparent there.  The half pixel by which the code widens every
   rectangle does not reach a centre and is not recorded. *)

\* the columns (or rows) of a canvas of g cells whose block centre lies in
\* [x, x + w)
Covered(x, w, g) ==
    LET size == GetPixelSize(g)
        half == size \div 2
        first == -((half - x) \div size)      \* least c with x <= c * size + half
        lastc == (x + w - 1 - half) \div size  \* greatest c with c * size + half < x + w
    IN  {c \in first..lastc : c >= 0 /\ c < g}

\* fillRect / clearRect(x, y, w, w): the cells whose centre it covers
Rect(x, y, w, g) == Covered(x, w, g) \X Covered(y, w, g)

\* applyPixelUpdates, the canvas part: every removal clears the block found
\* from its key, every other entry paints a block at its offsets.  A batch
\* holds removals only or entries of one color only (one tool and one color
\* per handler call), so the order of its entries does not matter.
PatchCanvas(b, pixelsToUpdate, r, g) ==
    LET w == GetPixelSize(r.grid)
        Cells(k) == IF pixelsToUpdate[k] = Deleted
                    THEN Rect(k[1] * w, k[2] * w, w, g)
                    ELSE Rect(pixelsToUpdate[k].x, pixelsToUpdate[k].y, w, g)
    IN  IF pixelsToUpdate = EmptyMap THEN b
        ELSE IF \E k \in DOMAIN pixelsToUpdate : pixelsToUpdate[k] = Deleted
        THEN [cell \in DOMAIN b \ UNION {Cells(k) : k \in DOMAIN pixelsToUpdate}
                 |-> b[cell]]
        ELSE CHOOSE patched \in
                 {[cell \in UNION {Cells(k) : k \in DOMAIN pixelsToUpdate}
                      |-> color] @@ b :
                  color \in {pixelsToUpdate[k].color : k \in DOMAIN pixelsToUpdate}} :
                 TRUE

\* restoreOffscreenCanvas(pixelsMap), and the repaint of a new canvas by the
\* initialisation effect: the canvas is transparent, then every pixel paints
\* a block at its offsets.  Where several pixels cover one centre the last
\* in the Map's order stays; a raster here does not record that order, so
\* each of them may be the one.
RestoreOffscreenCanvas(pixelsMap, g) ==
    LET w == GetPixelSize(g)
        PaintedBy(k) == Rect(pixelsMap[k].x, pixelsMap[k].y, w, g)
        painting == {k \in DOMAIN pixelsMap : PaintedBy(k) # {}}
        painted == UNION {PaintedBy(k) : k \in painting}
    IN  IF \A k \in DOMAIN pixelsMap : PaintedBy(k) = {k}
        THEN {[k \in DOMAIN pixelsMap |-> pixelsMap[k].color]}
        ELSE {[cell \in painted |->
                  pixelsMap[CHOOSE k \in S : cell \in PaintedBy(k)].color] :
              S \in {S \in SUBSET painting :
                        \A cell \in painted :
                            Cardinality({k \in S : cell \in PaintedBy(k)}) = 1}}

\* the background shape's color at a cell
Background(coords) ==
    IF ShowCheckerboard /\ (coords[1] + coords[2]) % 2 = 1 THEN Grey ELSE White

\* stage.toCanvas() and getImageData at a position in the cell coords: the
\* pixels image over the opaque background
StageImageData(b, coords) ==
    [color |-> IF coords \in DOMAIN b THEN b[coords] ELSE Background(coords),
     a |-> 255]

------------------------------------------------------------------------------
(* PixelCanvas: the pointer handlers.  A handler is a function of the state
   it reads and writes (a record c) and of the render r it closes over, so
   that the handlers one event runs can be composed in the order the browser
   calls them. *)

Here == [pixels |-> pixels, history |-> history, historyIndex |-> historyIndex,
         isDrawing |-> isDrawing, lastPos |-> lastPos,
         saves |-> 0, pushed |-> 0, dropped |-> 0, evicted |-> 0,
         bitmap |-> bitmap, touched |-> FALSE, picked |-> "none"]

\* a call of saveHistory() on the store's current raster
CallSaveHistory(c) ==
    LET s == SaveHistory(c.history, c.historyIndex, c.pixels)
    IN  [c EXCEPT !.history = s.history, !.historyIndex = s.historyIndex,
                  !.saves = @ + 1,
                  !.pushed = @ + (IF s.pushed THEN 1 ELSE 0),
                  !.dropped = @ + s.dropped,
                  !.evicted = @ + (IF s.evicted THEN 1 ELSE 0)]

\* applyPixelUpdates: the canvas is patched when there is one, then
\* updatePixels(pixelsToUpdate) sets a new Map in the store
ApplyPixelUpdates(c, batch, r) ==
    [c EXCEPT !.bitmap = IF offscreenCanvas
                         THEN PatchCanvas(@, batch, r, propGridSize) ELSE @,
              !.pixels = UpdatePixels(@, batch),
              !.touched = TRUE]

\* the eyedropper branch of handleMouseDown: the color under the pointer,
\* picked when the sampled pixel is not fully transparent
PickColor(c, coords) ==
    LET imageData == StageImageData(c.bitmap, coords)
    IN  IF imageData.a > 0 THEN [c EXCEPT !.picked = imageData.color] ELSE c

\* a handleMouseDown whose fill updates the store and takes no snapshot
HandleMouseDown_NoSave(c, x, y, r) ==
    LET coords == GetPixelCoords(x, y, r)
    IN  IF coords = NoPos THEN c
        ELSE IF r.tool = "eyedropper" THEN PickColor(c, coords)
        ELSE IF r.tool = "bucket"
        THEN LET f == FloodFill(c.pixels, coords[1], coords[2], r)
             IN  IF f.fill THEN ApplyPixelUpdates(c, f.batch, r) ELSE c
        ELSE [ApplyPixelUpdates(c, Batch({coords}, r), r)
                 EXCEPT !.isDrawing = TRUE, !.lastPos = coords]

\* handleMouseDown: the eyedropper, the bucket, then the pen and the eraser
HandleMouseDown(c, x, y, r) ==
    LET coords == GetPixelCoords(x, y, r)
    IN  IF coords = NoPos THEN c
        ELSE IF r.tool = "eyedropper" THEN PickColor(c, coords)
        ELSE IF r.tool = "bucket"
        THEN LET f == FloodFill(c.pixels, coords[1], coords[2], r)
             IN  IF f.fill
                 THEN CallSaveHistory(ApplyPixelUpdates(c, f.batch, r))
                 ELSE c
        ELSE [ApplyPixelUpdates(c, Batch({coords}, r), r)
                 EXCEPT !.isDrawing = TRUE, !.lastPos = coords]

\* handleMouseMove
HandleMouseMove(c, x, y, r) ==
    LET coords == GetPixelCoords(x, y, r)
    IN  IF ~r.isDrawing \/ coords = NoPos THEN c
        ELSE [ApplyPixelUpdates(c,
                 IF c.lastPos # NoPos
                 THEN DrawLineBatch(c.lastPos[1], c.lastPos[2],
                                    coords[1], coords[2], r)
                 ELSE Batch({coords}, r), r)
                EXCEPT !.lastPos = coords]

\* a handleMouseUp that leaves the last position in place
HandleMouseUp_KeepPos(c, r) ==
    [(IF r.isDrawing THEN CallSaveHistory(c) ELSE c) EXCEPT !.isDrawing = FALSE]

\* handleMouseUp
HandleMouseUp(c, r) ==
    [(IF r.isDrawing THEN CallSaveHistory(c) ELSE c)
        EXCEPT !.isDrawing = FALSE, !.lastPos = NoPos]

\* the document-level globalMouseMove handlers, in registration order
RECURSIVE GlobalMouseMove(_, _, _, _)
GlobalMouseMove(c, x, y, ls) ==
    IF ls = << >> THEN c
    ELSE GlobalMouseMove(HandleMouseMove(c, x, y, Head(ls)), x, y, Tail(ls))

\* the document-level globalMouseUp handlers, in registration order
RECURSIVE GlobalMouseUp(_, _)
GlobalMouseUp(c, ls) ==
    IF ls = << >> THEN c
    ELSE GlobalMouseUp(HandleMouseUp(c, Head(ls)), Tail(ls))

OnCanvas(pos) ==
    /\ pos[1] >= 0 /\ pos[1] < FIXED_CANVAS_SIZE
    /\ pos[2] >= 0 /\ pos[2] < FIXED_CANVAS_SIZE

\* the record of an operation: its name, how it was delivered, what its calls
\* of saveHistory did (c) and what it returned
Record(op, arg, c, ret) ==
    [op |-> op, arg |-> arg, saves |-> c.saves, pushed |-> c.pushed,
     dropped |-> c.dropped, evicted |-> c.evicted, ret |-> ret]

\* The effects of the render that follows an event, given whether the event
\* set a new pixels Map in the store and the canvas b its handlers left:
\* onHistoryChange(canUndo(), canRedo()) is called when the Map is a new one,
\* and the canvas is repainted from the raster when the Map or isDrawing
\* changed, no stroke is in progress and there is a canvas.
RenderEffects(touched, b) ==
    /\ notified' = IF touched
                   THEN <<CanUndo(historyIndex'), CanRedo(history', historyIndex')>>
                   ELSE notified
    /\ IF (touched \/ isDrawing' # isDrawing) /\ ~isDrawing' /\ offscreenCanvas
       THEN bitmap' \in RestoreOffscreenCanvas(pixels', propGridSize)
       ELSE bitmap' = b
    /\ UNCHANGED <<offscreenCanvas, loop>>

\* The effects of an event whose handlers set store.pixels, if at all, to a
\* Map of their own making (new Map(...)): the raster is then no longer the
\* object a snapshot is.
Effects(touched, b) ==
    /\ RenderEffects(touched, b)
    /\ aliased' = (~touched /\ aliased)

\* the store, canvas and App state the handlers of an event leave behind (c,
\* computed once), with onColorPick(color) and onToolChange('pen') of a
\* successful pick
Commit(handled, op, arg) ==
    \E c \in {handled} :
        /\ pushes + c.pushed <= MaxPushes
        /\ pixels' = c.pixels
        /\ history' = c.history
        /\ historyIndex' = c.historyIndex
        /\ isDrawing' = c.isDrawing
        /\ lastPos' = c.lastPos
        /\ pushes' = pushes + c.pushed
        /\ last' = Record(op, arg, c, NoRet)
        /\ currentColor' = IF c.picked # "none" THEN c.picked ELSE currentColor
        /\ currentTool' = IF c.picked # "none" THEN "pen" ELSE currentTool
        /\ Effects(c.touched, c.bitmap)

------------------------------------------------------------------------------
(* The state after construction and the operations *)

Init ==
    /\ pixels = EmptyMap
    /\ history = <<EmptyMap>>
    /\ historyIndex = 0
    /\ isDrawing = FALSE
    /\ propGridSize = MaxGrid
    /\ gridSize = MaxGrid
    /\ pixelSize = GetPixelSize(MaxGrid)
    /\ currentTool = "pen"
    /\ currentColor = Black
    /\ brushSize = 1
    /\ lastPos = NoPos
    /\ listeners = << >>
    /\ offscreenCanvas = TRUE
    /\ bitmap = EmptyMap
    /\ notified = <<FALSE, FALSE>>
    /\ pendingImport = NoImport
    /\ aliased = FALSE
    /\ loop = NoLoop
    /\ pushes = 0
    /\ last = Record("init", "-", Here, NoRet)

\* mousedown on the stage at pixel position pos: handleMouseDownWrapper.  The
\* record of the operation keeps the cell under the pointer.
PointerDownAt(pos) ==
    /\ OnCanvas(pos)
    /\ currentTool \in {"pen", "eraser"} => Len(listeners) < MaxListeners
    /\ Commit(HandleMouseDown(Here, pos[1], pos[2], Render), "pointerDown",
              GetPixelCoords(pos[1], pos[2], Render))
    /\ listeners' = IF currentTool \in {"pen", "eraser"}
                    THEN Append(listeners, Closure(Render)) ELSE listeners
    /\ UNCHANGED pendingImport
    /\ UNCHANGED <<gridSize, pixelSize, propGridSize, brushSize>>

PointerDown == \E pos \in PointerPositions : PointerDownAt(pos)

\* mousemove at pixel position pos: the stage handler when the pointer is
\* over the canvas, then every registered globalMouseMove.  The record of the
\* operation keeps the cell under the pointer.
PointerMoveAt(pos) ==
    /\ OnCanvas(pos) \/ listeners # << >>
    /\ Commit(GlobalMouseMove(
                IF OnCanvas(pos)
                THEN HandleMouseMove(Here, pos[1], pos[2], Render) ELSE Here,
                pos[1], pos[2], listeners),
              "pointerMove", GetPixelCoords(pos[1], pos[2], Render))
    /\ UNCHANGED pendingImport
    /\ UNCHANGED <<gridSize, pixelSize, propGridSize, brushSize, listeners>>

PointerMove == \E pos \in PointerPositions : PointerMoveAt(pos)

\* mouseup: the stage handler when the pointer is released over the canvas,
\* then every registered globalMouseUp, which removes itself
PointerUp ==
    \E onStage \in BOOLEAN :
        /\ onStage \/ listeners # << >>
        /\ Commit(GlobalMouseUp(
                    IF onStage THEN HandleMouseUp(Here, Render) ELSE Here,
                    listeners),
                  "pointerUp",
                  IF ~onStage THEN "document"
                  ELSE IF listeners = << >> THEN "stage" ELSE "both")
        /\ listeners' = << >>
        /\ UNCHANGED pendingImport
        /\ UNCHANGED <<gridSize, pixelSize, propGridSize, brushSize>>

\* undo()
Undo ==
    LET u == UndoResult(history, historyIndex, pixels)
    IN  /\ pixels' = u.pixels
        /\ historyIndex' = u.historyIndex
        /\ last' = Record("undo", "-", Here, u.ret)
        /\ UNCHANGED pendingImport
        /\ UNCHANGED <<history, isDrawing, gridSize, pixelSize, propGridSize,
                       currentTool, currentColor, brushSize, lastPos,
                       listeners, pushes>>
        /\ Effects(u.ret # NoRet, bitmap)

\* redo()
Redo ==
    LET u == RedoResult(history, historyIndex, pixels)
    IN  /\ pixels' = u.pixels
        /\ historyIndex' = u.historyIndex
        /\ last' = Record("redo", "-", Here, u.ret)
        /\ UNCHANGED pendingImport
        /\ UNCHANGED <<history, isDrawing, gridSize, pixelSize, propGridSize,
                       currentTool, currentColor, brushSize, lastPos,
                       listeners, pushes>>
        /\ Effects(u.ret # NoRet, bitmap)

\* a clear() that empties the raster and keeps the history
Clear_KeepHistory ==
    /\ pixels' = EmptyMap
    /\ last' = Record("clear", "-", Here, NoRet)
    /\ UNCHANGED pendingImport
    /\ UNCHANGED <<history, historyIndex, isDrawing, gridSize, pixelSize,
                   propGridSize, currentTool, currentColor, brushSize, lastPos,
                   listeners, pushes>>
    /\ Effects(TRUE, bitmap)

\* clear()
Clear ==
    /\ pixels' = EmptyMap
    /\ history' = <<EmptyMap>>
    /\ historyIndex' = 0
    /\ last' = Record("clear", "-", Here, NoRet)
    /\ UNCHANGED pendingImport
    /\ UNCHANGED <<isDrawing, gridSize, pixelSize, propGridSize, currentTool,
                   currentColor, brushSize, lastPos, listeners, pushes>>
    /\ RenderEffects(TRUE, bitmap)
    /\ aliased' = TRUE

\* A decoded image, drawn to gridSize x gridSize samples, is a function from
\* cells to samples [color, a]; the samples of the cells outside its domain
\* are fully transparent.
Opaque255(color) == [color |-> color, a |-> 255]

\* the decoded images an import is tried on
ImportImages ==
    { EmptyMap,
      [k \in {<<0, 0>>, <<1, 1>>} |->
          IF k = <<0, 0>> THEN Opaque255(Black) ELSE Opaque255(Red)] }

\* an import that also takes the samples of alpha 128
Imported_FromHalf(a) == a >= 128

\* importImage: the test a sample passes to become a pixel
Imported(a) == a > 128

\* importImage's newPixels for an image drawn to g x g samples
ImportedPixels(img, g, ps) ==
    [k \in {k \in DOMAIN img : InGrid(k[1], k[2], g) /\ Imported(img[k].a)} |->
        [x |-> k[1] * ps, y |-> k[2] * ps, color |-> img[k].color]]

\* img.onload of an import that captured grid size g and pixel size ps:
\* loadPixels(newPixels)
LoadPixelsFrom(img, g, ps) ==
    LET newPixels == ImportedPixels(img, g, ps)
    IN  Commit(CallSaveHistory([Here EXCEPT !.pixels = newPixels,
                                            !.touched = TRUE]),
               "loadPixels", "-")

\* an import whose image loads before any other event
LoadPixelsOf(img) ==
    /\ LoadPixelsFrom(img, gridSize, pixelSize)
    /\ UNCHANGED pendingImport
    /\ UNCHANGED <<gridSize, pixelSize, propGridSize, brushSize, listeners>>

LoadPixels == \E img \in ImportImages : LoadPixelsOf(img)

\* The effects of the render that follows handleGridSizeChange(newSize).
\* When the size changes the initialisation effect replaces the canvas by a
\* new one and paints the store's raster on it, whether or not a stroke is
\* in progress; otherwise the effects are those of any event, and
\* resizeCanvas has set a new Map unless the raster was empty.
ResizeEffects(newSize) ==
    IF newSize # propGridSize /\ offscreenCanvas
    THEN /\ notified' = IF pixels # EmptyMap
                        THEN <<CanUndo(historyIndex'),
                               CanRedo(history', historyIndex')>>
                        ELSE notified
         /\ bitmap' \in RestoreOffscreenCanvas(pixels', newSize)
         /\ aliased' = (pixels = EmptyMap /\ aliased)
         /\ UNCHANGED <<offscreenCanvas, loop>>
    ELSE Effects(pixels # EmptyMap, bitmap)

\* a resize that saves the remapped raster to the history
Resize_SavesHistory ==
    \E newSize \in GridSizes :
        /\ pixels' \in ResizePixels(pixels, pixelSize, newSize, GetPixelSize(newSize))
        /\ gridSize' = newSize
        /\ pixelSize' = GetPixelSize(newSize)
        /\ propGridSize' = newSize
        /\ history' = SaveHistory(history, historyIndex, pixels').history
        /\ historyIndex' = SaveHistory(history, historyIndex, pixels').historyIndex
        /\ last' = Record("resizeCanvas", "-", Here, NoRet)
        /\ UNCHANGED pendingImport
        /\ UNCHANGED <<isDrawing, currentTool, currentColor, brushSize,
                       lastPos, listeners, pushes>>
        /\ ResizeEffects(newSize)

\* handleGridSizeChange(newSize): resizeCanvas(newSize, getPixelSize(newSize))
Resize ==
    \E newSize \in GridSizes :
        /\ pixels' \in ResizePixels(pixels, pixelSize, newSize, GetPixelSize(newSize))
        /\ gridSize' = newSize
        /\ pixelSize' = GetPixelSize(newSize)
        /\ propGridSize' = newSize
        /\ last' = Record("resizeCanvas", "-", Here, NoRet)
        /\ UNCHANGED pendingImport
        /\ UNCHANGED <<history, historyIndex, isDrawing, currentTool,
                       currentColor, brushSize, lastPos, listeners, pushes>>
        /\ ResizeEffects(newSize)

\* the toolbar: the active tool
SetTool ==
    \E t \in Tools :
        /\ t # currentTool
        /\ currentTool' = t
        /\ last' = Record("setTool", "-", Here, NoRet)
        /\ UNCHANGED pendingImport
        /\ UNCHANGED <<pixels, history, historyIndex, isDrawing, gridSize,
                       pixelSize, propGridSize, currentColor, brushSize,
                       lastPos, listeners, offscreenCanvas, aliased, loop,
                   bitmap,
                       notified, pushes>>

\* the toolbar: the brush size buttons, out of reach while a stroke holds
\* the pointer down
SetBrushSize ==
    \E size \in 1..MaxBrush :
        /\ ~isDrawing
        /\ size # brushSize
        /\ brushSize' = size
        /\ last' = Record("setBrushSize", "-", Here, NoRet)
        /\ UNCHANGED pendingImport
        /\ UNCHANGED <<pixels, history, historyIndex, isDrawing, gridSize,
                       pixelSize, propGridSize, currentTool, currentColor,
                       lastPos, listeners, offscreenCanvas, aliased, loop,
                   bitmap,
                       notified, pushes>>

\* the properties panel: the active color
SetColor ==
    \E color \in Colors :
        /\ color # currentColor
        /\ currentColor' = color
        /\ last' = Record("setColor", "-", Here, NoRet)
        /\ UNCHANGED pendingImport
        /\ UNCHANGED <<pixels, history, historyIndex, isDrawing, gridSize,
                       pixelSize, propGridSize, currentTool, brushSize,
                       lastPos, listeners, offscreenCanvas, aliased, loop,
                   bitmap,
                       notified, pushes>>

\* the queries: a call of canUndo(), of canRedo() and of getSnapshot(), whose
\* results the record of the operation keeps
Queries ==
    /\ last' = Record("queries", "-", Here,
                      <<CanUndo(historyIndex), CanRedo(history, historyIndex),
                        GetSnapshot(pixels, history, historyIndex, gridSize,
                                    pixelSize)>>)
    /\ UNCHANGED pendingImport
    /\ UNCHANGED <<pixels, history, historyIndex, isDrawing, gridSize,
                   pixelSize, propGridSize, currentTool, currentColor,
                   brushSize, lastPos, listeners, offscreenCanvas, aliased, loop,
                   bitmap,
                   notified, pushes>>

Next ==
    \/ PointerDown
    \/ PointerMove
    \/ PointerUp
    \/ Undo
    \/ Redo
    \/ Clear
    \/ LoadPixels
    \/ Resize
    \/ SetTool
    \/ Queries

Spec == Init /\ [][Next]_vars

------------------------------------------------------------------------------
(* The editor with a full history.  InitCap is the state Init reaches by
   MAX_HISTORY - 1 pen and eraser strokes on cell (0, 0) in turn, each ended
   over the canvas: the history holds MAX_HISTORY snapshots, alternately
   empty and with the one cell painted, and the index is at the last one.
   The next push is the first to exceed the limit.  The operations are those
   of Spec, except that undo() is followed only MaxCapUndo snapshots back
   from the end of the full history and that clear(), which leads to the
   state of Init, is left to Spec. *)

OneCell == [k \in {<<0, 0>>} |-> [x |-> 0, y |-> 0, color |-> Black]]

FullHistory == [i \in 1..MAX_HISTORY |-> IF i % 2 = 1 THEN EmptyMap ELSE OneCell]

InitCap ==
    /\ pixels = FullHistory[MAX_HISTORY]
    /\ history = FullHistory
    /\ historyIndex = MAX_HISTORY - 1
    /\ isDrawing = FALSE
    /\ propGridSize = MaxGrid
    /\ gridSize = MaxGrid
    /\ pixelSize = GetPixelSize(MaxGrid)
    /\ currentTool = IF MAX_HISTORY % 2 = 0 THEN "pen" ELSE "eraser"
    /\ currentColor = Black
    /\ brushSize = 1
    /\ lastPos = NoPos
    /\ listeners = << >>
    /\ offscreenCanvas = TRUE
    /\ bitmap = [k \in DOMAIN FullHistory[MAX_HISTORY] |->
                    FullHistory[MAX_HISTORY][k].color]
    /\ notified = <<TRUE, FALSE>>
    /\ pendingImport = NoImport
    /\ aliased = FALSE
    /\ loop = NoLoop
    /\ pushes = 0
    /\ last = [Record("pointerUp", "both", Here, NoRet)
                 EXCEPT !.saves = 1, !.pushed = 1]

UndoCap ==
    /\ historyIndex >= MAX_HISTORY - MaxCapUndo
    /\ Undo

NextCap ==
    \/ PointerDown
    \/ PointerMove
    \/ PointerUp
    \/ UndoCap
    \/ Redo
    \/ LoadPixels
    \/ Resize
    \/ SetTool

SpecCap == InitCap /\ [][NextCap]_vars

------------------------------------------------------------------------------
(* The bucket tool on a grid of FillGrid x FillGrid cells.  The raster a fill
   is applied to is any arrangement of Red cells, brought in by an import
   into the empty editor; the fill color is Black or Red and the seed is any
   cell of the grid.  Imports are followed while nothing has been pushed. *)

FillCells == {<<col, row>> : col \in 0..(FillGrid - 1), row \in 0..(FillGrid - 1)}

FillImages == UNION {[cells -> {Opaque255(Red)}] : cells \in SUBSET FillCells}

\* the pixel position of the centre of a cell on a grid of g x g cells
CellCentre(cell, g) ==
    <<cell[1] * GetPixelSize(g) + GetPixelSize(g) \div 2,
      cell[2] * GetPixelSize(g) + GetPixelSize(g) \div 2>>

InitFill ==
    /\ pixels = EmptyMap
    /\ history = <<EmptyMap>>
    /\ historyIndex = 0
    /\ isDrawing = FALSE
    /\ propGridSize = FillGrid
    /\ gridSize = FillGrid
    /\ pixelSize = GetPixelSize(FillGrid)
    /\ currentTool = "bucket"
    /\ currentColor = Black
    /\ brushSize = 1
    /\ lastPos = NoPos
    /\ listeners = << >>
    /\ offscreenCanvas = TRUE
    /\ bitmap = EmptyMap
    /\ notified = <<FALSE, FALSE>>
    /\ pendingImport = NoImport
    /\ aliased = FALSE
    /\ loop = NoLoop
    /\ pushes = 0
    /\ last = Record("init", "-", Here, NoRet)

LoadFillImage ==
    /\ pushes = 0
    /\ \E img \in FillImages : LoadPixelsOf(img)

FillDown == \E cell \in FillCells : PointerDownAt(CellCentre(cell, propGridSize))

NextFill ==
    \/ LoadFillImage
    \/ FillDown
    \/ SetColor

SpecFill == InitFill /\ [][NextFill]_vars

------------------------------------------------------------------------------
(* Pen strokes on a grid of StrokeGrid x StrokeGrid cells with brush sizes
   1..MaxBrush.  The brush size is chosen and a stroke starts on the empty
   raster, at any cell; the stroke is followed for one pointer-move to any
   cell, then the pointer is released; clear() empties the raster for the
   next stroke. *)

StrokeCells ==
    {<<col, row>> : col \in 0..(StrokeGrid - 1), row \in 0..(StrokeGrid - 1)}

InitStroke ==
    /\ pixels = EmptyMap
    /\ history = <<EmptyMap>>
    /\ historyIndex = 0
    /\ isDrawing = FALSE
    /\ propGridSize = StrokeGrid
    /\ gridSize = StrokeGrid
    /\ pixelSize = GetPixelSize(StrokeGrid)
    /\ currentTool = "pen"
    /\ currentColor = Black
    /\ brushSize = 1
    /\ lastPos = NoPos
    /\ listeners = << >>
    /\ offscreenCanvas = TRUE
    /\ bitmap = EmptyMap
    /\ notified = <<FALSE, FALSE>>
    /\ pendingImport = NoImport
    /\ aliased = FALSE
    /\ loop = NoLoop
    /\ pushes = 0
    /\ last = Record("init", "-", Here, NoRet)

StrokeBrush ==
    /\ pixels = EmptyMap
    /\ SetBrushSize

StrokeDown ==
    /\ pixels = EmptyMap
    /\ \E cell \in StrokeCells : PointerDownAt(CellCentre(cell, propGridSize))

StrokeMove ==
    /\ last.op = "pointerDown"
    /\ \E cell \in StrokeCells : PointerMoveAt(CellCentre(cell, propGridSize))

NextStroke ==
    \/ StrokeBrush
    \/ StrokeDown
    \/ StrokeMove
    \/ PointerUp
    \/ Clear

SpecStroke == InitStroke /\ [][NextStroke]_vars

------------------------------------------------------------------------------
(* The four tools on a grid of DragGrid x DragGrid cells.  InitDrag is the
   state Init reaches by the import of an image whose samples are all opaque
   Red.  A stroke or a fill starts on that raster while the history is the
   initial one, at any cell; a stroke is followed for one pointer-move, to
   any cell or to a position beside the canvas, then the pointer is
   released.  Between strokes undo() and redo() bring the raster back, the
   eyedropper is used on the imported raster and on the empty one, and the
   pointer moves over the imported raster. *)

DragCells == {<<col, row>> : col \in 0..(DragGrid - 1), row \in 0..(DragGrid - 1)}

\* the cells beside the canvas a pointer-move goes to
DragOutside == {<<-1, 0>>, <<DragGrid, 1>>}

DragPixels ==
    ImportedPixels([k \in DragCells |-> Opaque255(Red)], DragGrid,
                   GetPixelSize(DragGrid))

InitDrag ==
    /\ pixels = DragPixels
    /\ history = <<EmptyMap, DragPixels>>
    /\ historyIndex = 1
    /\ isDrawing = FALSE
    /\ propGridSize = DragGrid
    /\ gridSize = DragGrid
    /\ pixelSize = GetPixelSize(DragGrid)
    /\ currentTool = "pen"
    /\ currentColor = Black
    /\ brushSize = 1
    /\ lastPos = NoPos
    /\ listeners = << >>
    /\ offscreenCanvas = TRUE
    /\ bitmap = [k \in DragCells |-> Red]
    /\ notified = <<TRUE, FALSE>>
    /\ pendingImport = NoImport
    /\ aliased = FALSE
    /\ loop = NoLoop
    /\ pushes = 0
    /\ last = [Record("loadPixels", "-", Here, NoRet)
                 EXCEPT !.saves = 1, !.pushed = 1]

\* the toolbar with its four tools
SelectTool ==
    \E t \in Tools \cup {"eyedropper"} :
        /\ t # currentTool
        /\ currentTool' = t
        /\ last' = Record("setTool", "-", Here, NoRet)
        /\ UNCHANGED <<pixels, history, historyIndex, isDrawing, gridSize,
                       pixelSize, propGridSize, currentColor, brushSize,
                       lastPos, listeners, offscreenCanvas, aliased, loop,
                   bitmap,
                       notified, pendingImport, pushes>>

\* the imported raster and the initial history, no stroke in progress
DragReady ==
    ~isDrawing /\ pixels = DragPixels /\ history = <<EmptyMap, DragPixels>>

DragTool ==
    /\ DragReady \/ (~isDrawing /\ pixels = EmptyMap)
    /\ SelectTool

DragBrush ==
    /\ DragReady
    /\ SetBrushSize

DragDown ==
    /\ \/ DragReady
       \/ ~isDrawing /\ pixels = EmptyMap /\ currentTool = "eyedropper"
    /\ \E cell \in DragCells : PointerDownAt(CellCentre(cell, propGridSize))

DragMove ==
    /\ last.op = "pointerDown" \/ (DragReady /\ last.op # "pointerMove")
    /\ \E cell \in DragCells \cup DragOutside :
          PointerMoveAt(CellCentre(cell, propGridSize))

DragUndo ==
    /\ ~isDrawing
    /\ Undo

DragRedo ==
    /\ ~isDrawing
    /\ Redo

NextDrag ==
    \/ DragTool
    \/ DragBrush
    \/ DragDown
    \/ DragMove
    \/ PointerUp
    \/ DragUndo
    \/ DragRedo

SpecDrag == InitDrag /\ [][NextDrag]_vars

------------------------------------------------------------------------------
(* The editor importing images.  importImage() reads gridSize and pixelSize
   when it is called and builds the raster when the chosen image has loaded;
   between the two the other operations run.  The images have samples of
   alpha 0, 128, 129 and 255 in two colors; the grid is resized, and undo()
   and redo() walk the history, between and after the imports. *)

Sample(color, a) == [color |-> color, a |-> a]

\* the decoded images a file is chosen from
ImportSamples ==
    { EmptyMap,
      [k \in {<<0, 0>>} |-> Sample(Black, 255)],
      [k \in {<<0, 0>>, <<1, 1>>} |->
          IF k = <<0, 0>> THEN Sample(Black, 128) ELSE Sample(Red, 129)],
      [k \in {<<0, 0>>, <<1, 1>>} |->
          IF k = <<0, 0>> THEN Sample(Black, 255) ELSE Sample(Red, 0)] }

\* importImage() up to the choice of a file: the sizes are captured
ImportImage ==
    /\ pendingImport = NoImport
    /\ aliased = FALSE
    /\ loop = NoLoop
    /\ \E img \in ImportSamples :
          pendingImport' = [img |-> img, gridSize |-> gridSize,
                            pixelSize |-> pixelSize]
    /\ last' = Record("importImage", "-", Here, NoRet)
    /\ UNCHANGED <<pixels, history, historyIndex, isDrawing, gridSize,
                   pixelSize, propGridSize, currentTool, currentColor,
                   brushSize, lastPos, listeners, offscreenCanvas, aliased, loop,
                   bitmap,
                   notified, pushes>>

\* img.onload
ImageLoaded ==
    /\ pendingImport # NoImport
    /\ LoadPixelsFrom(pendingImport.img, pendingImport.gridSize,
                      pendingImport.pixelSize)
    /\ pendingImport' = NoImport
    /\ UNCHANGED <<gridSize, pixelSize, propGridSize, brushSize, listeners>>

\* the chosen file does not decode: img.onload is never called
ImageError ==
    /\ pendingImport # NoImport
    /\ pendingImport' = NoImport
    /\ last' = Record("imageError", "-", Here, NoRet)
    /\ UNCHANGED <<pixels, history, historyIndex, isDrawing, gridSize,
                   pixelSize, propGridSize, currentTool, currentColor,
                   brushSize, lastPos, listeners, offscreenCanvas, aliased, loop,
                   bitmap,
                   notified, pushes>>

NextImport ==
    \/ ImportImage
    \/ ImageLoaded
    \/ ImageError
    \/ Undo
    \/ Redo
    \/ Resize

SpecImport == Init /\ [][NextImport]_vars

------------------------------------------------------------------------------
(* The editor loading persisted documents.  A document is what JSON.parse
   makes of the text: a syntax error, or a value with a version, a pixels
   member that is or is not a list, and the two sizes (0 when absent).  An
   item of the list is null or an object with the members key, x, y and
   color; an object without the member key has the key undefined. *)

UndefinedKey == << >>        \* item.key of an object without that member

NullItem == [null |-> TRUE, key |-> UndefinedKey, x |-> 0, y |-> 0,
             color |-> "null"]

ItemOf(key, x, y, color) ==
    [null |-> FALSE, key |-> key, x |-> x, y |-> y, color |-> color]

Document(kind, syntaxError, version, list, items, g, ps) ==
    [kind |-> kind, syntaxError |-> syntaxError, version |-> version,
     list |-> list, items |-> items, gridSize |-> g, pixelSize |-> ps]

BlackItem == ItemOf(<<0, 0>>, 0, 0, Black)
RedItem == ItemOf(<<1, 1>>, GetPixelSize(MaxGrid), GetPixelSize(MaxGrid), Red)

\* the documents deserializePixels is given
Documents ==
    { Document("unparseable", TRUE, "undefined", FALSE, << >>, 0, 0),
      Document("version", FALSE, "2.0", TRUE, <<BlackItem>>, MaxGrid,
               GetPixelSize(MaxGrid)),
      Document("version", FALSE, "undefined", TRUE, <<RedItem>>, MaxGrid,
               GetPixelSize(MaxGrid)),
      Document("pixels missing", FALSE, "1.0", FALSE, << >>, MaxGrid,
               GetPixelSize(MaxGrid)),
      Document("pixels not a list", FALSE, "1.0", FALSE, << >>, 1,
               GetPixelSize(1)),
      Document("null item", FALSE, "1.0", TRUE, <<BlackItem, NullItem>>,
               MaxGrid, GetPixelSize(MaxGrid)),
      Document("item without key", FALSE, "1.0", TRUE,
               <<ItemOf(UndefinedKey, 0, 0, Red)>>, MaxGrid,
               GetPixelSize(MaxGrid)),
      Document("valid", FALSE, "1.0", TRUE, << >>, 0, 0),
      Document("valid", FALSE, "1.0", TRUE, <<BlackItem>>, MaxGrid,
               GetPixelSize(MaxGrid)),
      Document("valid", FALSE, "1.0", TRUE, <<BlackItem, RedItem>>, MaxGrid,
               GetPixelSize(MaxGrid)),
      Document("valid", FALSE, "1.0", TRUE, <<RedItem, BlackItem>>, 1,
               GetPixelSize(1)) }

\* deserializePixels reaches loadPixels: JSON.parse, the version test and
\* the forEach over data.pixels have not thrown or returned
Loads(doc) ==
    /\ ~doc.syntaxError
    /\ doc.version = "1.0"
    /\ doc.list
    /\ \A i \in 1..Len(doc.items) : ~doc.items[i].null

\* deserializePixels' newPixels: a later item replaces an earlier one of
\* the same key
NewPixels(items) ==
    LET Latest(k) == CHOOSE i \in 1..Len(items) :
                        /\ items[i].key = k
                        /\ \A j \in (i + 1)..Len(items) : items[j].key # k
    IN  [k \in {items[i].key : i \in 1..Len(items)} |->
            [x |-> items[Latest(k)].x, y |-> items[Latest(k)].y,
             color |-> items[Latest(k)].color]]

\* deserializePixels(json), the store's sizes apart
DeserializePixels(c, doc) ==
    IF Loads(doc)
    THEN CallSaveHistory([c EXCEPT !.pixels = NewPixels(doc.items),
                                   !.touched = TRUE])
    ELSE c

\* deserializePixels(json) with the sizes: setGridSize and setPixelSize are
\* called after loadPixels for the sizes that are present
Deserialize ==
    \E doc \in Documents :
        /\ Commit(DeserializePixels(Here, doc), "deserializePixels", doc.kind)
        /\ gridSize' = IF Loads(doc) /\ doc.gridSize # 0
                       THEN doc.gridSize ELSE gridSize
        /\ pixelSize' = IF Loads(doc) /\ doc.pixelSize # 0
                        THEN doc.pixelSize ELSE pixelSize
        /\ UNCHANGED pendingImport
        /\ UNCHANGED <<propGridSize, brushSize, listeners>>

NextPersist ==
    \/ Deserialize
    \/ LoadPixels
    \/ Undo
    \/ Redo
    \/ Clear

SpecPersist == Init /\ [][NextPersist]_vars

------------------------------------------------------------------------------
(* Saving and loading: serializePixels() and deserializePixels of its text.
   The text is kept as what JSON.stringify writes: an object is the function
   from the names of its members that are not undefined to their tokens, a
   number is its decimal digits, a string is quoted. *)

DigitChars == <<"0", "1", "2", "3", "4", "5", "6", "7", "8", "9">>

\* the decimal digits of a natural number
RECURSIVE Digits(_)
Digits(n) ==
    IF n < 10 THEN <<DigitChars[n + 1]>>
    ELSE Digits(n \div 10) \o <<DigitChars[(n % 10) + 1]>>

\* a number written with its last digit only
Numeral_LastDigit(n) == <<DigitChars[(Abs(n) % 10) + 1]>>

\* JSON.stringify of a number
Numeral(n) == IF n < 0 THEN <<"-">> \o Digits(-n) ELSE Digits(n)

\* the value of a run of decimal digits
RECURSIVE DigitsValue(_)
DigitsValue(ds) ==
    IF ds = << >> THEN 0
    ELSE 10 * DigitsValue(SubSeq(ds, 1, Len(ds) - 1))
         + (CHOOSE d \in 0..9 : DigitChars[d + 1] = ds[Len(ds)])

\* JSON.parse of a number or string token
TokenValue(t) ==
    IF t[1] = "\"" THEN t[2]
    ELSE IF t[1] = "-" THEN -DigitsValue(Tail(t))
    ELSE DigitsValue(t)

\* the orders the entries of a Map with these keys can have
RECURSIVE EntryOrders(_)
EntryOrders(keys) ==
    IF keys = {} THEN {<< >>}
    ELSE UNION {{<<k>> \o rest : rest \in EntryOrders(keys \ {k})} : k \in keys}

\* JSON.stringify of { key, ...value }: a member that is undefined is left out
StringifyItem(key, value) ==
    [name \in {"x", "y", "color"}
                 \cup (IF key = UndefinedKey THEN {} ELSE {"key"}) |->
        IF name = "key" THEN <<"\"", key, "\"">>
        ELSE IF name = "color" THEN <<"\"", value.color, "\"">>
        ELSE IF name = "x" THEN Numeral(value.x)
        ELSE Numeral(value.y)]

\* serializePixels(): the text of { version, gridSize, pixelSize, pixels },
\* the entries in the order of the Map
SerializePixels(p, g, ps, order) ==
    [version |-> <<"\"", "1.0", "\"">>,
     gridSize |-> Numeral(g),
     pixelSize |-> Numeral(ps),
     pixels |-> [i \in 1..Len(order) |-> StringifyItem(order[i], p[order[i]])]]

\* JSON.parse of that text, as deserializePixels reads it: item.key of an
\* object without the member is undefined
ParseSerialized(json) ==
    Document("valid", FALSE, TokenValue(json.version), TRUE,
             [i \in 1..Len(json.pixels) |->
                 ItemOf(IF "key" \in DOMAIN json.pixels[i]
                        THEN TokenValue(json.pixels[i].key) ELSE UndefinedKey,
                        TokenValue(json.pixels[i].x),
                        TokenValue(json.pixels[i].y),
                        TokenValue(json.pixels[i].color))],
             TokenValue(json.gridSize), TokenValue(json.pixelSize))

\* deserializePixels(serializePixels())
SerializeDeserialize ==
    \E order \in EntryOrders(DOMAIN pixels) :
        \E doc \in {ParseSerialized(SerializePixels(pixels, gridSize,
                                                     pixelSize, order))} :
            /\ Commit(DeserializePixels(Here, doc), "roundTrip", "-")
            /\ gridSize' = IF Loads(doc) /\ doc.gridSize # 0
                           THEN doc.gridSize ELSE gridSize
            /\ pixelSize' = IF Loads(doc) /\ doc.pixelSize # 0
                            THEN doc.pixelSize ELSE pixelSize
            /\ UNCHANGED pendingImport
            /\ UNCHANGED <<propGridSize, brushSize, listeners>>

NextRoundTrip ==
    \/ SerializeDeserialize
    \/ Deserialize
    \/ LoadPixels
    \/ Undo
    \/ Redo
    \/ Clear
    \/ Resize

SpecRoundTrip == Init /\ [][NextRoundTrip]_vars

------------------------------------------------------------------------------
(* The editor exporting images.  The store is created without an offscreen
   canvas and with its own sizes; the canvas component's initialisation
   effect creates the canvas and sets the sizes of its props.  exportImage()
   can be called before and after; the other operations are those of Spec
   and need the mounted component. *)

StoreGridSize == 32
StorePixelSize == 20

InitExport ==
    /\ pixels = EmptyMap
    /\ history = <<EmptyMap>>
    /\ historyIndex = 0
    /\ isDrawing = FALSE
    /\ propGridSize = MaxGrid
    /\ gridSize = StoreGridSize
    /\ pixelSize = StorePixelSize
    /\ currentTool = "pen"
    /\ currentColor = Black
    /\ brushSize = 1
    /\ lastPos = NoPos
    /\ listeners = << >>
    /\ offscreenCanvas = FALSE
    /\ bitmap = EmptyMap
    /\ notified = <<FALSE, FALSE>>
    /\ pendingImport = NoImport
    /\ aliased = FALSE
    /\ loop = NoLoop
    /\ pushes = 0
    /\ last = Record("init", "-", Here, NoRet)

\* the initialisation effect of the first render
Mount ==
    /\ ~offscreenCanvas
    /\ offscreenCanvas' = TRUE
    /\ gridSize' = propGridSize
    /\ pixelSize' = GetPixelSize(propGridSize)
    /\ bitmap' \in RestoreOffscreenCanvas(pixels, propGridSize)
    /\ notified' = <<CanUndo(historyIndex), CanRedo(history, historyIndex)>>
    /\ last' = Record("mount", "-", Here, NoRet)
    /\ UNCHANGED <<pixels, history, historyIndex, isDrawing, propGridSize,
                   currentTool, currentColor, brushSize, lastPos, listeners,
                   pendingImport, aliased, loop, pushes>>

\* the cells of a g x g grid
GridCells(g) == (0..(g - 1)) \X (0..(g - 1))

\* the export canvas: side g * ps, filled white, with the offscreen canvas b
\* drawn on it
ExportCanvas(b, g, ps) ==
    [side |-> g * ps,
     cells |-> [cell \in GridCells(g) |->
                   IF cell \in DOMAIN b THEN b[cell] ELSE White]]

\* exportImage(): the record of the operation keeps the exported image, or
\* nothing when the export was skipped
ExportImage ==
    /\ last' = Record("exportImage", "-", Here,
                      IF offscreenCanvas
                      THEN <<ExportCanvas(bitmap, gridSize, pixelSize)>>
                      ELSE NoRet)
    /\ UNCHANGED <<pixels, history, historyIndex, isDrawing, gridSize,
                   pixelSize, propGridSize, currentTool, currentColor,
                   brushSize, lastPos, listeners, offscreenCanvas, aliased, loop,
                   bitmap,
                   notified, pendingImport, pushes>>

\* the operations of the mounted component
Mounted ==
    /\ offscreenCanvas
    /\ Next

NextExport ==
    \/ Mount
    \/ ExportImage
    \/ Mounted

SpecExport == InitExport /\ [][NextExport]_vars

------------------------------------------------------------------------------
(* The store with a client that mutates, in place, the Maps the store hands
   out: the live raster (getState().pixels) and the Map undo() or redo()
   returned.  Such a mutation calls no set(), so nothing is rendered.  Where
   the live raster is the very object a snapshot is, the snapshot changes
   with it. *)

\* the mutations of a Map: pixels.set('0,0', ...) and pixels.delete('0,0')
Mutations ==
    { [k \in {<<0, 0>>} |-> [x |-> 0, y |-> 0, color |-> Red]],
      [k \in {<<0, 0>>} |-> Deleted] }

\* getState().pixels mutated in place
MutateLive ==
    \E m \in Mutations :
        \E p \in {UpdatePixels(pixels, m)} :
            /\ p # pixels
            /\ pixels' = p
            /\ history' = IF aliased
                          THEN [history EXCEPT ![historyIndex + 1] = p]
                          ELSE history
            /\ last' = Record("mutate", "-", Here, NoRet)
            /\ UNCHANGED <<historyIndex, isDrawing, gridSize, pixelSize,
                           propGridSize, currentTool, currentColor, brushSize,
                           lastPos, listeners, offscreenCanvas, bitmap,
                           notified, pendingImport, aliased, loop, pushes>>

\* the Map undo() or redo() returned, a new Map(...) of the snapshot,
\* mutated in place
MutateReturned ==
    /\ last.op \in {"undo", "redo"}
    /\ last.ret # NoRet
    /\ \E m \in Mutations :
          \E p \in {UpdatePixels(last.ret[1], m)} :
              /\ p # last.ret[1]
              /\ last' = [last EXCEPT !.op = "mutateReturned", !.ret = <<p>>]
    /\ UNCHANGED <<pixels, history, historyIndex, isDrawing, gridSize,
                   pixelSize, propGridSize, currentTool, currentColor,
                   brushSize, lastPos, listeners, offscreenCanvas, bitmap,
                   notified, pendingImport, aliased, loop, pushes>>

NextAlias ==
    \/ MutateLive
    \/ MutateReturned
    \/ PointerDown
    \/ PointerUp
    \/ Undo
    \/ Redo
    \/ Clear
    \/ LoadPixels

SpecAlias == Init /\ [][NextAlias]_vars

------------------------------------------------------------------------------
(* The offscreen canvas pixel by pixel.  applyPixelUpdates and
   restoreOffscreenCanvas paint and clear rectangles of side pixelSize + 0.5,
   so each rectangle covers, besides the block of its cell, half of the
   first pixel column of the block to the right and half of the first pixel
   row of the block below, where the canvas blends it with what is there.
   A block is recorded here as three regions: its first column ("left"),
   its first row ("top") and the rest ("body"); the corner pixel the two
   share is not recorded.  A region is transparent, of one opaque color, or
   "mixed" (anything else).  The rectangles are painted in the iteration
   order of the Map, which is its insertion order, so the raster comes with
   the order of its keys; the record of the last operation keeps that order
   (arg) and the canvas (ret). *)

\* clearRect(0, 0, canvasWidth, canvasHeight)
BlankCanvas(g) == [p \in GridCells(g) \X {"body", "left", "top"} |-> "transparent"]

\* the regions a rectangle at the block of a cell covers by half
HalfCovered(cell) ==
    {<<<<cell[1] + 1, cell[2]>>, "left">>, <<<<cell[1], cell[2] + 1>>, "top">>}

\* fillRect(x, y, pixelSize + 0.5, pixelSize + 0.5) at the block of a cell:
\* a region covered by half keeps its color when it is the painted one
FillRect(cv, cell, color) ==
    [p \in DOMAIN cv |-> IF p[1] = cell THEN color
                         ELSE IF p \in HalfCovered(cell)
                         THEN (IF cv[p] = color THEN color ELSE "mixed")
                         ELSE cv[p]]

\* clearRect(x, y, pixelSize + 0.5, pixelSize + 0.5) at the block of a cell:
\* a region cleared by half stays transparent when it was
ClearRect(cv, cell) ==
    [p \in DOMAIN cv |-> IF p[1] = cell THEN "transparent"
                         ELSE IF p \in HalfCovered(cell)
                         THEN (IF cv[p] = "transparent" THEN "transparent"
                               ELSE "mixed")
                         ELSE cv[p]]

\* applyPixelUpdates' forEach over the entries [key, value] of a batch
RECURSIVE PatchPixels(_, _, _)
PatchPixels(cv, entries, ps) ==
    IF entries = << >> THEN cv
    ELSE PatchPixels(
             IF Head(entries).value = Deleted
             THEN ClearRect(cv, Head(entries).key)
             ELSE FillRect(cv, <<Head(entries).value.x \div ps,
                                 Head(entries).value.y \div ps>>,
                           Head(entries).value.color),
             Tail(entries), ps)

\* restoreOffscreenCanvas(pixelsMap): the canvas is cleared and every pixel
\* painted in the Map's order
RestorePixels(p, order, g, ps) ==
    PatchPixels(BlankCanvas(g),
                [i \in 1..Len(order) |-> [key |-> order[i], value |-> p[order[i]]]],
                ps)

\* the Map's key order after updatePixels: a deleted key leaves, a new key
\* is appended, a key that is set again stays where it is
RECURSIVE KeyOrder(_, _)
KeyOrder(order, entries) ==
    IF entries = << >> THEN order
    ELSE KeyOrder(
             IF Head(entries).value = Deleted
             THEN SelectSeq(order, LAMBDA k : k # Head(entries).key)
             ELSE IF \E i \in 1..Len(order) : order[i] = Head(entries).key
             THEN order
             ELSE Append(order, Head(entries).key),
             Tail(entries))

\* the keys of a batch, in the order collectPixels put them there
BatchKeys ==
    {<<k>> : k \in GridCells(MaxGrid)} \cup
    {ks \in {<<k1, k2>> : k1, k2 \in GridCells(MaxGrid)} : ks[1] # ks[2]}

InitCanvas ==
    /\ pixels = EmptyMap
    /\ history = <<EmptyMap>>
    /\ historyIndex = 0
    /\ isDrawing = FALSE
    /\ propGridSize = MaxGrid
    /\ gridSize = MaxGrid
    /\ pixelSize = GetPixelSize(MaxGrid)
    /\ currentTool = "pen"
    /\ currentColor = Black
    /\ brushSize = 1
    /\ lastPos = NoPos
    /\ listeners = << >>
    /\ offscreenCanvas = TRUE
    /\ bitmap = EmptyMap
    /\ notified = <<FALSE, FALSE>>
    /\ pendingImport = NoImport
    /\ aliased = FALSE
    /\ loop = NoLoop
    /\ pushes = 0
    /\ last = Record("restoreOffscreenCanvas", << >>, Here,
                     <<BlankCanvas(MaxGrid)>>)

\* applyPixelUpdates(pixelsToUpdate)
CanvasPatch ==
    \E keys \in BatchKeys,
       r \in {[Render EXCEPT !.tool = t, !.color = c] :
                 t \in {"pen", "eraser"}, c \in Colors} :
        \E entries \in {[i \in 1..Len(keys) |->
                            [key |-> keys[i],
                             value |-> CollectValue(keys[i][1], keys[i][2], r)]]} :
            \E c \in {ApplyPixelUpdates(Here,
                          [k \in {keys[i] : i \in 1..Len(keys)} |->
                              CollectValue(k[1], k[2], r)], r)} :
                /\ pixels' = c.pixels
                /\ bitmap' = c.bitmap
                /\ last' = Record("applyPixelUpdates",
                                  KeyOrder(last.arg, entries), Here,
                                  <<PatchPixels(last.ret[1], entries, pixelSize)>>)
                /\ UNCHANGED <<history, historyIndex, isDrawing, gridSize,
                               pixelSize, propGridSize, currentTool,
                               currentColor, brushSize, lastPos, listeners,
                               offscreenCanvas, notified, pendingImport,
                               aliased, loop, pushes>>

\* restoreOffscreenCanvas(pixels)
CanvasRestore ==
    /\ last.op = "applyPixelUpdates"
    /\ bitmap' \in RestoreOffscreenCanvas(pixels, propGridSize)
    /\ last' = Record("restoreOffscreenCanvas", last.arg, Here,
                      <<RestorePixels(pixels, last.arg, propGridSize,
                                      pixelSize)>>)
    /\ UNCHANGED <<pixels, history, historyIndex, isDrawing, gridSize,
                   pixelSize, propGridSize, currentTool, currentColor,
                   brushSize, lastPos, listeners, offscreenCanvas, notified,
                   pendingImport, aliased, loop, pushes>>

NextCanvas ==
    \/ CanvasPatch
    \/ CanvasRestore

SpecCanvas == InitCanvas /\ [][NextCanvas]_vars

------------------------------------------------------------------------------
(* floodFill step by step.  The raster is any arrangement of Red cells on
   the grid of FillGrid x FillGrid cells and the fill color is Black or Red;
   one fill is followed from its call through every iteration of its
   while loop to updatePixels and saveHistory.  The handler runs to
   completion, so nothing else happens between the iterations.  The loop
   record also keeps the cells in the order they were painted. *)

\* a loop test without the visited set and the color comparison
Skips_RangeOnly(key, l, g) == ~InGrid(key[1], key[2], g)

\* floodFill's loop: the tests after which an entry of the queue is dropped
Skips(key, l, g) ==
    \/ ~InGrid(key[1], key[2], g)
    \/ key \in l.visited
    \/ ColorAt(l.newPixels, key) # l.targetColor

InitFloodFill ==
    /\ pixels \in {ImportedPixels(img, FillGrid, GetPixelSize(FillGrid)) :
                      img \in FillImages}
    /\ history = IF pixels = EmptyMap THEN <<EmptyMap>>
                                      ELSE <<EmptyMap, pixels>>
    /\ historyIndex = Len(history) - 1
    /\ isDrawing = FALSE
    /\ propGridSize = FillGrid
    /\ gridSize = FillGrid
    /\ pixelSize = GetPixelSize(FillGrid)
    /\ currentTool = "bucket"
    /\ currentColor \in Colors
    /\ brushSize = 1
    /\ lastPos = NoPos
    /\ listeners = << >>
    /\ offscreenCanvas = TRUE
    /\ bitmap = [k \in DOMAIN pixels |-> pixels[k].color]
    /\ notified = <<CanUndo(historyIndex), FALSE>>
    /\ pendingImport = NoImport
    /\ aliased = FALSE
    /\ loop = NoLoop
    /\ pushes = 0
    /\ last = Record("init", "-", Here, NoRet)

\* floodFill(startCol, startRow) up to the loop: it returns at once when
\* the seed has the fill color
FloodFillEnter ==
    /\ last.op = "init"
    /\ \E seed \in FillCells :
          /\ last' = Record("floodFill", seed, Here, NoRet)
          /\ loop' = IF ColorAt(pixels, seed) = currentColor THEN NoLoop
                     ELSE [queue |-> <<seed>>, visited |-> {},
                           newPixels |-> pixels, pixelsToUpdate |-> EmptyMap,
                           targetColor |-> ColorAt(pixels, seed),
                           painted |-> << >>]
    /\ UNCHANGED <<pixels, history, historyIndex, isDrawing, gridSize,
                   pixelSize, propGridSize, currentTool, currentColor,
                   brushSize, lastPos, listeners, offscreenCanvas, bitmap,
                   notified, pendingImport, aliased, pushes>>

\* one iteration of while (queue.length > 0)
FloodFillIterate ==
    /\ loop # NoLoop
    /\ loop.queue # << >>
    /\ last.op = "floodFill"
    /\ \E key \in {Head(loop.queue)} :
          loop' = IF Skips(key, loop, propGridSize)
                  THEN [loop EXCEPT !.queue = Tail(@)]
                  ELSE [loop EXCEPT
                          !.queue = Tail(@) \o Neighbours(key[1], key[2]),
                          !.visited = @ \cup {key},
                          !.newPixels =
                              UpdatePixels(@, [k \in {key} |->
                                  [x |-> key[1] * GetPixelSize(propGridSize),
                                   y |-> key[2] * GetPixelSize(propGridSize),
                                   color |-> currentColor]]),
                          !.pixelsToUpdate =
                              UpdatePixels(@, [k \in {key} |->
                                  [x |-> key[1] * GetPixelSize(propGridSize),
                                   y |-> key[2] * GetPixelSize(propGridSize),
                                   color |-> currentColor]]),
                          !.painted = Append(@, key)]
    /\ UNCHANGED <<pixels, history, historyIndex, isDrawing, gridSize,
                   pixelSize, propGridSize, currentTool, currentColor,
                   brushSize, lastPos, listeners, offscreenCanvas, bitmap,
                   notified, pendingImport, aliased, pushes, last>>

\* after the loop: updatePixels(pixelsToUpdate) and saveHistory()
FloodFillLeave ==
    /\ loop # NoLoop
    /\ loop.queue = << >>
    /\ last.op = "floodFill"
    /\ Commit(CallSaveHistory(ApplyPixelUpdates(Here, loop.pixelsToUpdate,
                                                Render)),
              "floodFillDone", last.arg)
    /\ UNCHANGED <<gridSize, pixelSize, propGridSize, brushSize, listeners,
                   pendingImport>>

NextFloodFill ==
    \/ FloodFillEnter
    \/ FloodFillIterate
    \/ FloodFillLeave

\* the handler runs on: an iteration that can be taken is taken
SpecFloodFillFair ==
    InitFloodFill /\ [][NextFloodFill]_vars /\ WF_vars(FloodFillIterate)

------------------------------------------------------------------------------
(* drawLine, one iteration at a time *)

\* the largest coordinate of an end point
LineMax == 4

\* a loop body that steps in both axes whatever the error term says
LineStep_BothAxes(l) ==
    [l EXCEPT !.err = (@ - l.dy) + l.dx, !.x = @ + l.sx, !.y = @ + l.sy]

\* the loop body after the break test: e2 = 2 * err, then the two steps
LineStep(l) ==
    LET e2 == 2 * l.err
        stepX == e2 > -l.dy
        stepY == e2 < l.dx
    IN  [l EXCEPT !.err = (IF stepX THEN @ - l.dy ELSE @)
                          + (IF stepY THEN l.dx ELSE 0),
                  !.x = IF stepX THEN @ + l.sx ELSE @,
                  !.y = IF stepY THEN @ + l.sy ELSE @,
                  !.steps = @ + 1]

\* drawLine(x0, y0, x1, y1) up to the loop
DrawLineEnter ==
    /\ last.op = "init"
    /\ \E from, to \in (0..LineMax) \X (0..LineMax) :
          /\ last' = Record("drawLine", <<from, to>>, Here, NoRet)
          /\ loop' = [x0 |-> from[1], y0 |-> from[2],
                      x1 |-> to[1], y1 |-> to[2],
                      dx |-> Abs(to[1] - from[1]),
                      dy |-> Abs(to[2] - from[2]),
                      sx |-> IF from[1] < to[1] THEN 1 ELSE -1,
                      sy |-> IF from[2] < to[2] THEN 1 ELSE -1,
                      err |-> Abs(to[1] - from[1]) - Abs(to[2] - from[2]),
                      x |-> from[1], y |-> from[2],
                      centres |-> << >>, steps |-> 0, broke |-> FALSE]
    /\ UNCHANGED <<pixels, history, historyIndex, isDrawing, gridSize,
                   pixelSize, propGridSize, currentTool, currentColor,
                   brushSize, lastPos, listeners, offscreenCanvas, bitmap,
                   notified, pendingImport, aliased, pushes>>

\* one iteration of while (true): collect around (x, y), break at the end
\* point, step otherwise
DrawLineIterate ==
    /\ loop # NoLoop
    /\ ~loop.broke
    /\ last.op = "drawLine"
    /\ \E l \in {[loop EXCEPT !.centres = Append(@, <<loop.x, loop.y>>)]} :
          loop' = IF l.x = l.x1 /\ l.y = l.y1
                  THEN [l EXCEPT !.broke = TRUE]
                  ELSE LineStep(l)
    /\ UNCHANGED <<pixels, history, historyIndex, isDrawing, gridSize,
                   pixelSize, propGridSize, currentTool, currentColor,
                   brushSize, lastPos, listeners, offscreenCanvas, bitmap,
                   notified, pendingImport, aliased, pushes, last>>

\* after the loop: applyPixelUpdates(pixelsToUpdate)
DrawLineLeave ==
    /\ loop # NoLoop
    /\ loop.broke
    /\ last.op = "drawLine"
    /\ Commit(ApplyPixelUpdates(
                Here,
                Batch({loop.centres[i] : i \in 1..Len(loop.centres)}, Render),
                Render),
              "drawLineDone", last.arg)
    /\ UNCHANGED <<gridSize, pixelSize, propGridSize, brushSize, listeners,
                   pendingImport>>

NextDrawLine ==
    \/ DrawLineEnter
    \/ DrawLineIterate
    \/ DrawLineLeave

\* the handler runs on: an iteration that can be taken is taken
SpecDrawLineFair ==
    InitStroke /\ [][NextDrawLine]_vars /\ WF_vars(DrawLineIterate)

------------------------------------------------------------------------------
(* The history manager: claims C1 to C10 *)

\* an event that called saveHistory and pushed one snapshot
Pushed == last'.pushed = 1

\* the snapshot at the index before the step
Top == Snap(history, historyIndex)

\* C1: in every reachable state the history is non-empty and
\* 0 <= historyIndex <= history.length - 1.
C1_IndexInRange ==
    /\ Len(history) >= 1
    /\ 0 <= historyIndex
    /\ historyIndex <= Len(history) - 1

\* C1's case: a history of three snapshots with the index in the middle,
\* after an undo
C1_Witness ==
    /\ last.op = "undo"
    /\ Len(history) = 3
    /\ historyIndex = 1

\* C2: the history never holds more than MAX_HISTORY snapshots, and after
\* every edit whose snapshot is pushed the index is at the last snapshot,
\* which is content-equal to the raster just saved.
C2_HistoryBound ==
    /\ Len(history) <= MAX_HISTORY
    /\ last.pushed > 0 =>
          /\ historyIndex = Len(history) - 1
          /\ ContentEqual(Snap(history, historyIndex), pixels)

\* C2's case: the second push on top of a full history, that is more than
\* MAX_HISTORY distinct edits
C2_Witness ==
    /\ pushes = 2
    /\ last.pushed = 1
    /\ last.evicted = 1
    /\ Len(history) = MAX_HISTORY

C4_OneSnapshotPerStroke ==
    [][(last'.op = "pointerUp" /\ isDrawing /\ ~ContentEqual(pixels, Top))
          => last'.pushed = 1]_vars

\* C5: each stroke that changes the raster advances historyIndex by exactly
\* one, below the cap.
C5_StrokeAdvancesIndex ==
    [][(/\ last'.op = "pointerUp"
        /\ isDrawing
        /\ ~ContentEqual(pixels, Top)
        /\ historyIndex < MAX_HISTORY - 1)
          => historyIndex' = historyIndex + 1]_vars

\* C6: a push while historyIndex < history.length - 1 removes every snapshot
\* after the old index, keeps the snapshots at 0..historyIndex unchanged and
\* in order, and afterwards canRedo() is false and redo() is a no-op.
C6_RedoBranchDiscarded ==
    [][(Pushed /\ historyIndex < Len(history) - 1) =>
          /\ Len(history') = historyIndex + 2
          /\ \A i \in 0..historyIndex : Snap(history', i) = Snap(history, i)
          /\ Snap(history', historyIndex + 1) = pixels'
          /\ historyIndex' = historyIndex + 1
          /\ ~CanRedo(history', historyIndex')
          /\ RedoResult(history', historyIndex', pixels') =
                [pixels |-> pixels', historyIndex |-> historyIndex',
                 ret |-> NoRet]]_vars

\* C6's case: a push that discarded at least one snapshot
C6_Witness ==
    /\ last.pushed = 1
    /\ last.dropped > 0
    /\ historyIndex = Len(history) - 1

\* C7: a call of saveHistory leaves the history and the index unchanged
\* exactly when the raster to save is content-equal to the snapshot at the
\* index; otherwise it pushes a snapshot.
C7_NoOpIffContentEqual ==
    [][last'.saves = 1 =>
          /\ (history' = history /\ historyIndex' = historyIndex)
                <=> ContentEqual(pixels', Top)
          /\ last'.pushed = 1 <=> ~ContentEqual(pixels', Top)]_vars

\* C7's case: a snapshot pushed because one cell changed its color, the set
\* of cells being the same
C7_Witness ==
    /\ last.pushed = 1
    /\ historyIndex > 0
    /\ pixels # EmptyMap
    /\ DOMAIN Snap(history, historyIndex - 1) = DOMAIN pixels

\* C8: a push that makes the history longer than MAX_HISTORY evicts exactly
\* the oldest snapshot, keeps the others in order, and leaves historyIndex at
\* the snapshot just pushed.
C8_EvictOldest ==
    [][(Pushed /\ Len(history) = MAX_HISTORY /\ historyIndex = MAX_HISTORY - 1) =>
          /\ Len(history') = MAX_HISTORY
          /\ \A i \in 1..(MAX_HISTORY - 1) : history'[i] = history[i + 1]
          /\ history'[MAX_HISTORY] = pixels'
          /\ historyIndex' = MAX_HISTORY - 1]_vars

\* C8's case: a push that evicted the oldest snapshot
C8_Witness ==
    /\ last.pushed = 1
    /\ last.evicted = 1
    /\ historyIndex = MAX_HISTORY - 1
    /\ Snap(history, historyIndex) = pixels

\* C9: undo() with historyIndex > 0 decrements historyIndex, replaces the
\* raster by the snapshot now at the index, returns that snapshot and leaves
\* the history unchanged; with historyIndex = 0 it returns null and changes
\* neither raster, history nor index.
C9_Undo ==
    [][last'.op = "undo" =>
          IF historyIndex > 0
          THEN /\ historyIndex' = historyIndex - 1
               /\ pixels' = Snap(history, historyIndex - 1)
               /\ last'.ret = <<Snap(history, historyIndex - 1)>>
               /\ history' = history
          ELSE /\ last'.ret = NoRet
               /\ UNCHANGED <<pixels, history, historyIndex>>]_vars

\* C9's case: an undo() that restored a non-empty snapshot
C9_Witness ==
    /\ last.op = "undo"
    /\ last.ret # NoRet
    /\ pixels # EmptyMap
    /\ historyIndex = 1

\* C10: redo() with historyIndex < history.length - 1 increments
\* historyIndex, replaces the raster by the snapshot now at the index,
\* returns it and leaves the history unchanged; at the end it returns null
\* and changes neither raster, history nor index.
C10_Redo ==
    [][last'.op = "redo" =>
          IF historyIndex < Len(history) - 1
          THEN /\ historyIndex' = historyIndex + 1
               /\ pixels' = Snap(history, historyIndex + 1)
               /\ last'.ret = <<Snap(history, historyIndex + 1)>>
               /\ history' = history
          ELSE /\ last'.ret = NoRet
               /\ UNCHANGED <<pixels, history, historyIndex>>]_vars

\* C10's case: a redo() that restored the last snapshot of three
C10_Witness ==
    /\ last.op = "redo"
    /\ last.ret # NoRet
    /\ Len(history) = 3
    /\ historyIndex = 2

------------------------------------------------------------------------------
(* The bucket tool: claims C11 to C13 *)

\* a pointer-down with the bucket tool on a cell of the grid
FillStep == last'.op = "pointerDown" /\ currentTool = "bucket" /\ last'.arg # NoPos

\* C11: a bucket fill on a cell that already stores the fill color leaves the
\* raster, the history and historyIndex unchanged.
C11_IdempotentFill ==
    [][(/\ FillStep
        /\ last'.arg \in DOMAIN pixels
        /\ pixels[last'.arg].color = currentColor) =>
          UNCHANGED <<pixels, history, historyIndex>>]_vars

\* C11's case: a Red fill on a Red cell of a raster that also has unset
\* cells, which called neither updatePixels nor saveHistory
C11_Witness ==
    /\ last.op = "pointerDown"
    /\ currentTool = "bucket"
    /\ currentColor = Red
    /\ last.arg \in DOMAIN pixels
    /\ pixels[last.arg].color = Red
    /\ last.saves = 0
    /\ DOMAIN pixels # FillCells
    /\ Cardinality(DOMAIN pixels) >= 2

\* two cells of a raster have the same color, both being unset included
SameColor(p, a, b) ==
    \/ a \notin DOMAIN p /\ b \notin DOMAIN p
    \/ a \in DOMAIN p /\ b \in DOMAIN p /\ p[a].color = p[b].color

\* two cells share an edge
Adjacent4(a, b) ==
    \/ a[1] = b[1] /\ (a[2] = b[2] + 1 \/ a[2] = b[2] - 1)
    \/ a[2] = b[2] /\ (a[1] = b[1] + 1 \/ a[1] = b[1] - 1)

\* the cells of the grid that a set of cells reaches through shared edges
\* inside the seed's color
RECURSIVE Grow(_, _, _, _)
Grow(region, p, seed, cells) ==
    LET more == {k \in cells \ region :
                    /\ SameColor(p, k, seed)
                    /\ \E n \in region : Adjacent4(k, n)}
    IN  IF more = {} THEN region ELSE Grow(region \cup more, p, seed, cells)

\* the 4-connected region of the seed's color that contains the seed
Region4(p, seed, g) ==
    Grow({seed}, p, seed, {<<col, row>> : col \in 0..(g - 1), row \in 0..(g - 1)})

\* C12: when the seed's color differs from the fill color, the fill sets to
\* the fill color exactly the cells of the 4-connected in-grid region of the
\* seed's color around the seed; every other cell keeps its previous value.
C12_FillExact ==
    [][(FillStep /\ ColorAt(pixels, last'.arg) # currentColor) =>
          LET region == Region4(pixels, last'.arg, propGridSize)
          IN  /\ DOMAIN pixels' = DOMAIN pixels \cup region
              /\ \A k \in region : pixels'[k].color = currentColor
              /\ \A k \in DOMAIN pixels \ region : pixels'[k] = pixels[k]]_vars

\* C12's case: a Black fill seeded in the unset centre cell, enclosed by the
\* four Red edge cells: the centre alone is filled, the Red cells and the
\* unset corners, which touch the centre only diagonally, are as before
C12_Witness ==
    /\ last.op = "pointerDown"
    /\ last.arg = <<1, 1>>
    /\ last.pushed = 1
    /\ gridSize = 3
    /\ DOMAIN pixels = {<<1, 1>>, <<0, 1>>, <<1, 0>>, <<2, 1>>, <<1, 2>>}
    /\ pixels[<<1, 1>>].color = Black
    /\ \A k \in {<<0, 1>>, <<1, 0>>, <<2, 1>>, <<1, 2>>} : pixels[k].color = Red

\* C13 as stated: a fill that changes cells produces exactly one history
\* snapshot.
C13_Original ==
    [][(FillStep /\ ColorAt(pixels, last'.arg) # currentColor) =>
          /\ last'.pushed = 1
          /\ Len(history') = historyIndex + 2]_vars

\* C13, amended: the cells a fill changes reach the store as one batch, the
\* fill calls saveHistory once, and that call pushes exactly one snapshot
\* unless the filled raster is content-equal to the snapshot at the index,
\* in which case it pushes none.
C13_FillOneBatchOneSave ==
    [][(FillStep /\ ColorAt(pixels, last'.arg) # currentColor) =>
          LET f == FloodFill(pixels, last'.arg[1], last'.arg[2], Render)
          IN  /\ pixels' = UpdatePixels(pixels, f.batch)
              /\ DOMAIN f.batch =
                    {k \in DOMAIN pixels' :
                        k \notin DOMAIN pixels \/ pixels'[k] # pixels[k]}
              /\ last'.saves = 1
              /\ last'.pushed = IF ContentEqual(pixels', Top) THEN 0 ELSE 1
              /\ last'.pushed = 1 =>
                    /\ Len(history') = historyIndex + 2
                    /\ historyIndex' = historyIndex + 1
                    /\ Snap(history', historyIndex') = pixels'
              /\ last'.pushed = 0 =>
                    UNCHANGED <<history, historyIndex>>]_vars

\* C13's case: a fill that changed several cells and pushed one snapshot on
\* top of an earlier one
C13_Witness ==
    /\ last.op = "pointerDown"
    /\ currentTool = "bucket"
    /\ last.saves = 1
    /\ last.pushed = 1
    /\ historyIndex = 2
    /\ Cardinality(DOMAIN pixels \ DOMAIN Snap(history, 1)) >= 2

------------------------------------------------------------------------------
(* Strokes: claims C14 and C15 *)

Max(a, b) == IF a > b THEN a ELSE b

\* two different cells that differ by at most one in each axis
Adjacent8(a, b) ==
    /\ a # b
    /\ Abs(a[1] - b[1]) <= 1
    /\ Abs(a[2] - b[2]) <= 1

\* the square of side 2 * floor(n / 2) + 1 around a cell
Square(cell, n) ==
    {<<cell[1] + dx, cell[2] + dy>> :
        dx \in -(n \div 2)..(n \div 2), dy \in -(n \div 2)..(n \div 2)}

\* a sequence of cells starts at a, ends at b, has max(|dc|, |dr|) + 1 cells
\* and steps from each cell to an 8-adjacent one
ConnectedPath(line, a, b) ==
    /\ line[1] = a
    /\ line[Len(line)] = b
    /\ Len(line) = Max(Abs(b[1] - a[1]), Abs(b[2] - a[2])) + 1
    /\ \A i \in 1..(Len(line) - 1) : Adjacent8(line[i], line[i + 1])

\* the in-grid cells a brush of size n covers when stamped on each cell of a
\* sequence
Stamped(line, n) ==
    UNION {Square(line[i], IF n = 1 THEN 1 ELSE n) : i \in 1..Len(line)}
       \cap StrokeCells

\* C14: the centres drawLine visits between two in-grid cells start at the
\* first, end at the second, are max(|c1-c0|, |r1-r0|) + 1 in number, and
\* each is 8-adjacent to the next; the pointer-move stamps the brush on each
\* of them.
C14_LineContinuity ==
    [][(last'.op = "pointerMove" /\ isDrawing /\ lastPos # NoPos
           /\ lastPos' # NoPos) =>
          \A line \in {LineCells(lastPos[1], lastPos[2], lastPos'[1], lastPos'[2])} :
              /\ ConnectedPath(line, lastPos, lastPos')
              /\ DOMAIN pixels' = DOMAIN pixels \cup Stamped(line, brushSize)]_vars

\* C14's case: a one-cell brush moved from (1, 8) to (8, 5), a line of eight
\* cells that is neither straight nor diagonal
C14_Witness ==
    /\ last.op = "pointerMove"
    /\ brushSize = 1
    /\ lastPos = <<8, 5>>
    /\ <<1, 8>> \in DOMAIN pixels
    /\ Cardinality(DOMAIN pixels) = 8

\* C15: a stamp at centre (c, r) with brushSize 1 affects exactly the centre
\* cell; with brushSize n > 1 exactly the in-grid cells (c + dx, r + dy)
\* with |dx|, |dy| <= floor(n / 2), which are (2 * floor(n / 2) + 1)^2 cells
\* when the square is not clipped.
C15_BrushFootprint ==
    [][(last'.op = "pointerDown" /\ currentTool = "pen" /\ last'.arg # NoPos) =>
          LET n == brushSize
              square == Square(last'.arg, IF n = 1 THEN 1 ELSE n)
              footprint == square \cap StrokeCells
          IN  /\ DOMAIN pixels' = DOMAIN pixels \cup footprint
              /\ \A k \in footprint : pixels'[k].color = currentColor
              /\ \A k \in DOMAIN pixels \ footprint : pixels'[k] = pixels[k]
              /\ n = 1 => footprint = {last'.arg}
              /\ square \subseteq StrokeCells =>
                    Cardinality(DOMAIN pixels' \ DOMAIN pixels) =
                       (2 * (n \div 2) + 1) * (2 * (n \div 2) + 1)]_vars

\* C15's case: brushSize 3 stamped at (5, 5) on the 10 x 10 grid, the nine
\* cells (4..6, 4..6)
C15_Witness ==
    /\ last.op = "pointerDown"
    /\ last.arg = <<5, 5>>
    /\ brushSize = 3
    /\ gridSize = 10
    /\ DOMAIN pixels = {<<col, row>> : col \in 4..6, row \in 4..6}

------------------------------------------------------------------------------
(* Resize, clear and the queries: claims C16 to C20 *)

\* C16: after resizeCanvas every cell (c, r) with c, r < min(oldSize, newSize)
\* is still present under the same key with the same color and the offsets
\* (c * newPixelSize, r * newPixelSize); every cell with c >= newSize or
\* r >= newSize is absent; no cell that was absent before is present.
C16_ResizeRemap ==
    [][last'.op = "resizeCanvas" =>
          /\ \A k \in DOMAIN pixels :
                (k[1] < Min(gridSize, gridSize') /\ k[2] < Min(gridSize, gridSize')) =>
                    /\ k \in DOMAIN pixels'
                    /\ pixels'[k] = [x |-> k[1] * pixelSize', y |-> k[2] * pixelSize',
                                     color |-> pixels[k].color]
          /\ \A k \in DOMAIN pixels' : k[1] < gridSize' /\ k[2] < gridSize'
          /\ DOMAIN pixels' \subseteq DOMAIN pixels]_vars

\* C17: every key (col, row) of the raster satisfies 0 <= col < gridSize and
\* 0 <= row < gridSize for the current gridSize.
C17_RasterInRange ==
    \A k \in DOMAIN pixels : InGrid(k[1], k[2], gridSize)

\* C18: resizeCanvas leaves the history and historyIndex unchanged, whether
\* or not the raster is empty.
C18_ResizeKeepsHistory ==
    [][last'.op = "resizeCanvas" => UNCHANGED <<history, historyIndex>>]_vars

\* C18's case: a resize that dropped cells of a raster whose snapshot is in
\* the history
C18_Witness ==
    /\ last.op = "resizeCanvas"
    /\ gridSize = 1
    /\ historyIndex = 1
    /\ Len(history) = 2
    /\ pixels # EmptyMap
    /\ Cardinality(DOMAIN pixels) < Cardinality(DOMAIN Snap(history, 1))

\* C19: clear() yields the raster and history of editor initialization: an
\* empty raster, a history of one empty snapshot, historyIndex 0, hence
\* canUndo() and canRedo() false.
C19_ClearResets ==
    [][last'.op = "clear" =>
          /\ pixels' = EmptyMap
          /\ history' = <<EmptyMap>>
          /\ historyIndex' = 0
          /\ ~CanUndo(historyIndex')
          /\ ~CanRedo(history', historyIndex')]_vars

\* C19's case: a clear() after two snapshots were pushed
C19_Witness ==
    /\ last.op = "clear"
    /\ pushes = 2
    /\ pixels = EmptyMap
    /\ history = <<EmptyMap>>
    /\ historyIndex = 0

\* C20: canUndo() is historyIndex > 0, canRedo() is
\* historyIndex < history.length - 1, getSnapshot() reports the same two
\* values, and the calls change no state.
C20_PureQueries ==
    [][last'.op = "queries" =>
          /\ last'.ret[1] = (historyIndex > 0)
          /\ last'.ret[2] = (historyIndex < Len(history) - 1)
          /\ last'.ret[3].canUndo = last'.ret[1]
          /\ last'.ret[3].canRedo = last'.ret[2]
          /\ UNCHANGED <<pixels, history, historyIndex, isDrawing, gridSize,
                         pixelSize, propGridSize, currentTool, currentColor,
                         brushSize, lastPos, listeners>>]_vars

\* C20's case: the queries in the middle of a history of three snapshots,
\* where both are true
C20_Witness ==
    /\ last.op = "queries"
    /\ Len(history) = 3
    /\ historyIndex = 1
    /\ last.ret[1]
    /\ last.ret[2]

------------------------------------------------------------------------------
(* The canvas component: claims C21 to C27 *)

\* C21: after every completed operation (a stroke ended by pointer-up, a
\* fill, undo, redo, clear, an import) the pair last delivered through
\* onHistoryChange equals the store's current canUndo() and canRedo().
C21_HistorySignals ==
    [][(\/ last'.op = "pointerUp" /\ isDrawing
        \/ FillStep
        \/ last'.op \in {"undo", "redo", "clear", "loadPixels"})
          => notified' = <<CanUndo(historyIndex'),
                           CanRedo(history', historyIndex')>>]_vars

\* C22: the drag state machine.  Stroking (isDrawing) is entered only by an
\* in-grid pointer-down with the pen or the eraser, which records the clicked
\* cell as last position; a pointer-down with the bucket or the eyedropper
\* leaves the machine Idle; a pointer-move while Idle changes nothing; a
\* pointer-up always leaves it Idle with the last position cleared; and in
\* every state Idle implies that the last position is unset.
C22_DragStateMachine ==
    [][/\ ~isDrawing => lastPos = NoPos
       /\ ~isDrawing' => lastPos' = NoPos
       /\ (~isDrawing /\ isDrawing') =>
             /\ last'.op = "pointerDown"
             /\ last'.arg # NoPos
             /\ currentTool \in {"pen", "eraser"}
       /\ (last'.op = "pointerDown" /\ last'.arg # NoPos
              /\ currentTool \in {"pen", "eraser"}) =>
             /\ isDrawing'
             /\ lastPos' = last'.arg
       /\ (last'.op = "pointerDown" /\ ~isDrawing
              /\ currentTool \in {"bucket", "eyedropper"}) =>
             ~isDrawing'
       /\ (last'.op = "pointerMove" /\ ~isDrawing) =>
             UNCHANGED <<pixels, history, historyIndex, isDrawing, lastPos,
                         bitmap>>
       /\ last'.op = "pointerUp" => (~isDrawing' /\ lastPos' = NoPos)]_vars

\* C22's case: a stroke that went from its first cell to another one and was
\* ended by a pointer-up, which left the machine Idle
C22_Witness ==
    /\ last.op = "pointerUp"
    /\ last.pushed = 1
    /\ ~isDrawing
    /\ lastPos = NoPos
    /\ Cardinality({k \in DragCells : k \notin DOMAIN pixels
                                         \/ pixels[k].color # Red}) >= 2

\* the in-grid cells a brush of size n covers when stamped on each cell of
\* a sequence
DragStamped(line, n) ==
    UNION {Square(line[i], n) : i \in 1..Len(line)} \cap DragCells

\* C23: an in-grid pointer-move while Stroking applies to the raster exactly
\* the brush-expanded cells of the line from the last position to the current
\* cell (set to the current color by the pen, removed by the eraser), leaves
\* every other cell and the history unchanged, and sets the last position to
\* the current cell.
C23_MoveAppliesLine ==
    [][(/\ last'.op = "pointerMove"
        /\ isDrawing
        /\ lastPos # NoPos
        /\ last'.arg # NoPos
        /\ currentTool \in {"pen", "eraser"}) =>
          \A cells \in {DragStamped(LineCells(lastPos[1], lastPos[2],
                                              last'.arg[1], last'.arg[2]),
                                    brushSize)} :
              /\ currentTool = "pen" =>
                    \A k \in cells : /\ k \in DOMAIN pixels'
                                     /\ pixels'[k].color = currentColor
              /\ currentTool = "eraser" =>
                    \A k \in cells : k \notin DOMAIN pixels'
              /\ \A k \in (DOMAIN pixels \cup DOMAIN pixels') \ cells :
                    /\ k \in DOMAIN pixels
                    /\ k \in DOMAIN pixels'
                    /\ pixels'[k] = pixels[k]
              /\ UNCHANGED <<history, historyIndex>>
              /\ lastPos' = last'.arg]_vars

\* C23's case: the eraser with a brush of size 2 moved from (0, 0) to (3, 2),
\* which removed more than the two end stamps
C23_Witness ==
    /\ last.op = "pointerMove"
    /\ isDrawing
    /\ currentTool = "eraser"
    /\ brushSize = 2
    /\ last.arg = <<3, 2>>
    /\ lastPos = <<3, 2>>
    /\ <<0, 0>> \notin DOMAIN pixels
    /\ <<2, 1>> \notin DOMAIN pixels
    /\ Cardinality(DOMAIN pixels) < Cardinality(DragCells) - 8

\* C24: the rendered bitmap is always derivable from the raster.  After every
\* processed event, undo, redo and clear during a stroke included, a cell of
\* the offscreen bitmap shows color c if and only if the raster maps that cell
\* to c, and is transparent if and only if the cell is unset.
C24_BitmapDerivable ==
    offscreenCanvas => bitmap = [k \in DOMAIN pixels |-> pixels[k].color]

\* C25: resize and clear are not interleaved with a stroke in progress.
\* Whenever clear() or resizeCanvas() has executed the drag state machine is
\* Idle and the last position is unset, and the pointer-move or pointer-up
\* that follows it neither paints cells nor pushes a snapshot.
C25_StrokeNotInterleaved ==
    [][/\ last'.op \in {"clear", "resizeCanvas"} =>
             (~isDrawing' /\ lastPos' = NoPos)
       /\ (last.op \in {"clear", "resizeCanvas"}
              /\ last'.op \in {"pointerMove", "pointerUp"}) =>
             UNCHANGED <<pixels, history, historyIndex>>]_vars

C27_OutOfRangeIgnored ==
    [][/\ \A cell \in DragOutside :
             \A pos \in {CellCentre(cell, propGridSize)} :
                 HandleMouseDown(Here, pos[1], pos[2], Render) = Here
       /\ (last'.op = "pointerMove" /\ last'.arg = NoPos) =>
             UNCHANGED <<pixels, lastPos, isDrawing, history, historyIndex>>
       /\ DOMAIN pixels' \subseteq DragCells]_vars

\* C27's case: a pen stroke of brush size 3 started on the corner cell, so
\* that part of the brush fell outside the grid, and the pointer then moved
\* outside the grid
C27_Witness ==
    /\ last.op = "pointerMove"
    /\ last.arg = NoPos
    /\ isDrawing
    /\ currentTool = "pen"
    /\ brushSize = 3
    /\ lastPos = <<0, 0>>
    /\ pixels[<<1, 1>>].color = Black

------------------------------------------------------------------------------
(* Import, persistence and export: claims C28 to C30 *)

\* the cells an image drawn to g x g samples sets: those of alpha above 128
OpaqueCells(img, g) ==
    {k \in DOMAIN img : k[1] \in 0..(g - 1) /\ k[2] \in 0..(g - 1)
                           /\ img[k].a >= 129}

\* the raster after an import holds exactly the cells of the image whose
\* alpha exceeds 128, each in the color of its sample
ImportedExactly ==
    \A img \in {pendingImport.img} :
        /\ DOMAIN pixels' = OpaqueCells(img, pendingImport.gridSize)
        /\ \A k \in DOMAIN pixels' : pixels'[k].color = img[k].color

\* C28 as stated: the raster after an import holds exactly the cells whose
\* sample alpha exceeds 128, each in its sample's color, the previous content
\* is replaced, and the import pushes one snapshot, so that undo() restores
\* the raster before the import.
C28_Original ==
    [][(last'.op = "loadPixels" /\ pendingImport # NoImport) =>
          /\ ImportedExactly
          /\ last'.pushed = 1
          /\ ContentEqual(UndoResult(history', historyIndex', pixels').pixels,
                          pixels)]_vars

\* C28, amended: the raster after an import holds exactly the cells whose
\* sample alpha exceeds 128 (alpha 128 and below are left unset), each in its
\* sample's color, and nothing of the previous raster; the import calls
\* saveHistory once, which pushes one snapshot unless the imported raster is
\* content-equal to the snapshot at the index; after a pushing import undo()
\* restores the snapshot that was at the index, which is the raster before
\* the import when that raster was content-equal to it.
C28_Import ==
    [][(last'.op = "loadPixels" /\ pendingImport # NoImport) =>
          /\ ImportedExactly
          /\ last'.saves = 1
          /\ last'.pushed = IF ContentEqual(pixels', Top) THEN 0 ELSE 1
          /\ Pushed =>
                \A u \in {UndoResult(history', historyIndex', pixels')} :
                    /\ u.ret # NoRet
                    /\ u.pixels = Top
                    /\ ContentEqual(pixels, Top) =>
                          ContentEqual(u.pixels, pixels)]_vars

\* C28's case: an image with one sample of alpha 128 and one of alpha 129
\* was imported over a non-empty raster and pushed
C28_Witness ==
    /\ last.op = "loadPixels"
    /\ last.pushed = 1
    /\ historyIndex >= 1
    /\ Snap(history, historyIndex - 1) # EmptyMap
    /\ DOMAIN pixels = {<<1, 1>>}
    /\ pixels[<<1, 1>>].color = Red

\* C29: malformed persisted data is rejected without partial mutation.
\* deserializePixels given unparseable JSON, a document whose version is not
\* '1.0', or a document whose pixel list is missing or malformed leaves the
\* raster, the history, historyIndex, gridSize and pixelSize exactly as they
\* were.
C29_MalformedRejected ==
    [][(last'.op = "deserializePixels" /\ last'.arg # "valid") =>
          UNCHANGED <<pixels, history, historyIndex, gridSize,
                      pixelSize>>]_vars

\* C30: export never mutates the editor.  exportImage leaves the raster, the
\* history, historyIndex and the grid configuration unchanged; while the
\* offscreen bitmap is not initialised the export is skipped; otherwise the
\* exported image has side gridSize * pixelSize, with the unset cells opaque
\* white and the set cells in their raster color.
C30_Export ==
    [][last'.op = "exportImage" =>
          /\ UNCHANGED <<pixels, history, historyIndex, gridSize, pixelSize,
                         propGridSize, bitmap>>
          /\ ~offscreenCanvas => last'.ret = NoRet
          /\ offscreenCanvas =>
                /\ last'.ret # NoRet
                /\ \A image \in {last'.ret[1]} :
                      /\ image.side = gridSize * pixelSize
                      /\ DOMAIN image.cells = GridCells(gridSize)
                      /\ \A cell \in GridCells(gridSize) :
                            image.cells[cell] =
                               IF cell \in DOMAIN pixels
                               THEN pixels[cell].color ELSE White]_vars

------------------------------------------------------------------------------
(* The remaining claims: C31 to C39 *)

\* C31: snapshots are immutable.  A snapshot stored in the history keeps its
\* content under every later operation for as long as it remains in the
\* history, and mutating the live raster or the raster undo() or redo()
\* returned alters no stored snapshot.  (A push removes the snapshots above
\* the index and, at the limit, the oldest one; clear() removes them all;
\* every other snapshot must be found unchanged after the step.)
C31_SnapshotsImmutable ==
    [][last'.op # "clear" =>
          \A d \in {last'.evicted} :
              \A kept \in {IF last'.pushed >= 1 THEN historyIndex + 1
                                                 ELSE Len(history)} :
                  /\ Len(history') >= kept - d
                  /\ \A i \in (1 + d)..kept :
                        history'[i - d] = history[i]]_vars

\* the cells a pointer event with the eraser removes: the brush stamped
\* along the line from the last position, or on the cell alone
Erased ==
    IF last'.op = "pointerMove" /\ lastPos # NoPos
    THEN DragStamped(LineCells(lastPos[1], lastPos[2],
                               last'.arg[1], last'.arg[2]), brushSize)
    ELSE DragStamped(<<last'.arg>>, brushSize)

\* C32: the raster is sparse.  It holds only set cells, each with exactly
\* one color; erasing removes the key instead of storing a sentinel, so no
\* entry has a null or missing color after any pen, eraser or fill
\* operation, and erasing cells that are already unset leaves the raster
\* unchanged.
C32_SparseRaster ==
    [][/\ \A k \in DOMAIN pixels' :
             /\ pixels'[k] # Deleted
             /\ pixels'[k].color \in {Black, Red, White, Grey}
       /\ (/\ currentTool = "eraser"
           /\ \/ last'.op = "pointerDown"
              \/ last'.op = "pointerMove" /\ isDrawing
           /\ last'.arg # NoPos) =>
             /\ DOMAIN pixels' = DOMAIN pixels \ Erased
             /\ \A k \in DOMAIN pixels' : pixels'[k] = pixels[k]
             /\ Erased \cap DOMAIN pixels = {} => pixels' = pixels]_vars

\* C32's case: an eraser stroke of brush size 1 whose pointer-move stayed on
\* the cell the pointer-down had erased, so that the move erased a cell
\* that was already unset
C32_Witness ==
    /\ last.op = "pointerMove"
    /\ isDrawing
    /\ currentTool = "eraser"
    /\ brushSize = 1
    /\ last.arg = <<0, 0>>
    /\ DOMAIN pixels = DragCells \ {<<0, 0>>}

\* C33: the incremental patch refines the full rebuild.  For any raster R
\* and any update batch U, applying the patch of U to the canvas rebuilt
\* from R gives, cell for cell, the canvas a full rebuild from R with U
\* applied gives.
C33_PatchRefinesRebuild ==
    [][(last.op = "restoreOffscreenCanvas"
          /\ last'.op = "applyPixelUpdates") =>
          last'.ret[1] = RestorePixels(pixels', last'.arg, propGridSize,
                                       pixelSize)]_vars

\* no cell occurs twice in a sequence of cells
NoRepeat(cells) ==
    \A i, j \in 1..Len(cells) : cells[i] = cells[j] => i = j

\* C34: flood fill terminates on every raster and seed.  The breadth-first
\* loop empties its queue after finitely many steps, no cell is painted more
\* than once, and at most gridSize^2 cells are painted.
C34_FillTerminates ==
    /\ [](loop # NoLoop =>
             /\ NoRepeat(loop.painted)
             /\ Len(loop.painted) <= gridSize * gridSize)
    /\ (loop # NoLoop) ~> (loop # NoLoop /\ loop.queue = << >>)

\* C34's case: a fill that has emptied its queue after painting a region
\* of six cells or more that is not the whole grid
C34_Witness ==
    /\ loop # NoLoop
    /\ loop.queue = << >>
    /\ Len(loop.painted) >= 6
    /\ Len(loop.painted) < FillGrid * FillGrid

\* the closed interval between two integers, in either order
Between(a, b) == Min(a, b)..Max(a, b)

\* C35: drawLine(x0, y0, x1, y1) terminates for every pair of integer end
\* points: the loop takes at most max(|x1 - x0|, |y1 - y0|) iterations past
\* the first, never leaves the span of the end points in either axis, and
\* reaches (x1, y1), where it breaks.
C35_LineTerminates ==
    /\ [](loop # NoLoop =>
            /\ loop.steps <= Max(Abs(loop.x1 - loop.x0), Abs(loop.y1 - loop.y0))
            /\ loop.x \in Between(loop.x0, loop.x1)
            /\ loop.y \in Between(loop.y0, loop.y1)
            /\ loop.broke => loop.x = loop.x1 /\ loop.y = loop.y1)
    /\ (loop # NoLoop) ~> (loop # NoLoop /\ loop.broke)

\* a steep line drawn up and to the left has reached its end point
C35_Witness ==
    /\ loop # NoLoop
    /\ loop.broke
    /\ <<loop.x0, loop.y0>> = <<3, LineMax>>
    /\ <<loop.x1, loop.y1>> = <<1, 0>>
    /\ loop.steps = LineMax
    /\ Len(loop.centres) = LineMax + 1

\* an event after which the raster is committed: a call of saveHistory, a
\* successful undo or redo, clear, loadPixels, the pointer-up that ends a
\* stroke, or a fill that painted
Committing ==
    \/ last'.saves >= 1
    \/ last'.op \in {"undo", "redo"} /\ last'.ret # NoRet
    \/ last'.op \in {"clear", "loadPixels"}
    \/ last'.op = "pointerUp" /\ isDrawing
    \/ /\ last'.op = "pointerDown"
       /\ currentTool = "bucket"
       /\ last'.arg # NoPos
       /\ ColorAt(pixels, last'.arg) # currentColor

\* C36: immediately after saveHistory, a successful undo or redo, clear,
\* loadPixels, or a completed stroke or fill, the live raster is content-equal
\* to history[historyIndex].
C36_CommittedAgreement ==
    [][Committing =>
          ContentEqual(pixels', Snap(history', historyIndex'))]_vars

\* C37: in every reachable state each raster entry under key (col, row) has
\* x = col * pixelSize and y = row * pixelSize for the store's current
\* pixelSize, entries restored by undo() or redo() after a resizeCanvas
\* included.
C37_OffsetsMatchKeys ==
    \A k \in DOMAIN pixels :
        /\ pixels[k].x = k[1] * pixelSize
        /\ pixels[k].y = k[2] * pixelSize

\* C38: an import whose image loads after a resizeCanvas that occurred
\* between the request and the load yields a raster valid for the current
\* configuration: every key lies within the current gridSize and every offset
\* is col or row times the current pixelSize.
C38_ImportAfterResize ==
    [][(/\ pendingImport # NoImport
        /\ last'.op = "loadPixels"
        /\ pendingImport.gridSize # gridSize) =>
          \A k \in DOMAIN pixels' :
              /\ InGrid(k[1], k[2], gridSize')
              /\ pixels'[k].x = k[1] * pixelSize'
              /\ pixels'[k].y = k[2] * pixelSize']_vars

====
